---------------------------- MODULE Spec2Model ----------------------------
(***************************************************************************)
(* A model of the HOA social media automation job (src/main.py).          *)
(*                                                                         *)
(* A string is a sequence of tokens: single characters where the code     *)
(* inspects the string character by character (the From header, the       *)
(* APPROVED_EMAIL_SENDERS setting), opaque pieces of text elsewhere (a    *)
(* generated post, a prompt).  Every call to an external service is       *)
(* recorded as a Step in the trace of the handler that made it, with the  *)
(* answer of the service, which is an input of the action chosen by the   *)
(* environment.  A handler is one action: it runs from its first call to  *)
(* its return.                                                            *)
(*                                                                         *)
(* Spec runs the two email workflows, SpecHoliday the Holiday workflow,   *)
(* SpecGen the retry loop of generate against every script of generator   *)
(* answers, SpecAuth the authorization guard against every setting and    *)
(* From header, SpecPost post_with_images against every answer of the     *)
(* uploads, SpecTrunc the truncation of long meeting minutes, SpecMain    *)
(* one run of main from its start to its exit, in every mode, SpecMime    *)
(* the content extraction against a family of part trees, SpecLink the    *)
(* link trailer of a meeting-minutes post, SpecStarve the repeated runs   *)
(* of an email workflow against a mailbox larger than one listing, and    *)
(* SpecStore the uploads of the MeetingMinutes workflow run after run.    *)
(***************************************************************************)
EXTENDS Integers, Sequences, FiniteSets, TLC

VARIABLES
    arg,          \* inputs of the function under study (pure-function specifications)
    ret,          \* its result, once called
    env,          \* APPROVED_EMAIL_SENDERS as found in the environment
    msgs,         \* the mailbox content: per message id its subject class, From header, ...
    labels,       \* the label ids each message carries (UNREAD and INBOX are labels)
    userLabels,   \* names of the user labels that exist in the mailbox
    run,          \* the workflow whose message loop is running, or "idle"
    pending,      \* the listed message ids the running loop still has to process
    trace,        \* the external calls of the most recent handler invocation, in order
    last,         \* summary of the most recent handler invocation
    published,    \* per message id: number of successful publishes so far
    marked,       \* per message id: a mailbox modify succeeded after a successful publish
    stored,       \* per message id that is tracked: number of files created in the file
                  \* store for it
    calendar,     \* per date: the name the holiday calendar gives it, or None
    clock,        \* the process-local date
    flags,        \* the dates for which /tmp/hoa_posted_holiday_<date>.flag exists
    hol,          \* per date: history of the Holiday invocations that started on it
    runs,         \* number of workflow runs started so far
    config,       \* the Config of the process: secrets, Google credentials, RUN_MODE
    services,     \* GoogleAPIManager.services: the names of the services that were built
    pc,           \* where main is: "start", "workflows", "returned" (exit status 0),
                  \* "exited" (sys.exit(1)); "detached" when a workflow is studied alone,
                  \* "scheduled" when it is run by a schedule without end
    ran           \* the workflows main has called so far, in order

vars == <<arg, ret, env, msgs, labels, userLabels, run, pending, trace, last,
          published, marked, stored, calendar, clock, flags, hol, runs, config, services, pc, ran>>

mailVars == <<env, msgs, labels, userLabels, run, pending, published, marked, stored>>

holidayVars == <<calendar, clock, flags, hol>>

procVars == <<config, services, pc, ran>>

-----------------------------------------------------------------------------
(* Bounds of the model *)

MaxCfgLen == 3
MaxHdrLen == 3
NumMsgs == 2
MaxImages == 1
MaxRuns == 2
MaxDay == 1
MaxListedImages == 11
MaxMargin == 5
MaxEvents == 2
MaxNest == 1
MaxParts == 2

-----------------------------------------------------------------------------
(* Python values *)

\* A string is a sequence of tokens (characters, or opaque pieces of text).
\* None is a value no string operation produces.
None == <<"<None>">>

\* Python truth value of an Optional[str]
Truthy(x) == x # None /\ x # <<>>

Range(s) == {s[i] : i \in DOMAIN s}

RECURSIVE StrUpTo(_, _)
StrUpTo(alphabet, n) ==
    IF n = 0 THEN {<<>>}
    ELSE LET shorter == StrUpTo(alphabet, n - 1)
         IN  shorter \cup {Append(s, c) : s \in {t \in shorter : Len(t) = n - 1}, c \in alphabet}

WS == {" "}

LowerChar(c) == CASE c = "A" -> "a" [] c = "B" -> "b" [] OTHER -> c

\* str.lower()
Lower(s) == [i \in DOMAIN s |-> LowerChar(s[i])]

RECURSIVE LStrip(_)
LStrip(s) == IF s # <<>> /\ Head(s) \in WS THEN LStrip(Tail(s)) ELSE s

RECURSIVE RStrip(_)
RStrip(s) ==
    IF s # <<>> /\ s[Len(s)] \in WS THEN RStrip(SubSeq(s, 1, Len(s) - 1)) ELSE s

\* str.strip()
Strip(s) == RStrip(LStrip(s))

\* c in s
Contains(s, c) == \E i \in DOMAIN s : s[i] = c

RECURSIVE SplitFrom(_, _, _, _)
SplitFrom(s, sep, i, cur) ==
    IF i > Len(s) THEN <<cur>>
    ELSE IF s[i] = sep THEN <<cur>> \o SplitFrom(s, sep, i + 1, <<>>)
    ELSE SplitFrom(s, sep, i + 1, Append(cur, s[i]))

\* str.split(sep) for a one-character separator
Split(s, sep) == SplitFrom(s, sep, 1, <<>>)

-----------------------------------------------------------------------------
(* Config and the authorization guard *)

IsNonBlank(s) == Strip(s) # <<>>

StripLower(s) == Lower(Strip(s))

parse_approved_senders_keep_blank(senders) ==
    LET kept == Split(senders, ",")
    IN  [i \in DOMAIN kept |-> StripLower(kept[i])]

\* Config._parse_approved_senders: [s.strip().lower() for s in senders.split(',') if s.strip()]
parse_approved_senders(senders) ==
    LET kept == SelectSeq(Split(senders, ","), IsNonBlank)
    IN  [i \in DOMAIN kept |-> StripLower(kept[i])]

\* GmailHandler.extract_sender_email, applied to the value of the From header
extract_sender_email(from_header) ==
    IF Contains(from_header, "<") /\ Contains(from_header, ">")
    THEN Strip(Split(Split(from_header, "<")[2], ">")[1])
    ELSE Strip(from_header)

is_approved_sender_exact(approved_senders, email) ==
    IF approved_senders = <<>> THEN FALSE
    ELSE email \in Range(approved_senders)

is_approved_sender_open(approved_senders, email) ==
    IF approved_senders = <<>> THEN TRUE
    ELSE Lower(email) \in Range(approved_senders)

\* GmailHandler.is_approved_sender
is_approved_sender(approved_senders, email) ==
    IF approved_senders = <<>> THEN FALSE
    ELSE Lower(email) \in Range(approved_senders)

-----------------------------------------------------------------------------
(* External calls and internal steps, as recorded in a handler's trace *)

\* op: the call; m: the message id it names; add, rem: the label ids of a modify;
\* n: a number it carries (a sleep's length, an image, a date); text: the text it sends;
\* media: the photo ids it attaches; ok: whether the service answered with success;
\* out: the text a generator call answered with (or the error it raised).
Step(op) == [op |-> op, m |-> 0, add |-> {}, rem |-> {}, n |-> 0, text |-> <<>>, media |-> <<>>,
             ok |-> TRUE, out |-> <<>>]

Answered(step, ok) == [step EXCEPT !.ok = ok]

StepText(op, text) == [Step(op) EXCEPT !.text = text]

StepMsg(op, m) == [Step(op) EXCEPT !.m = m]

Ops(calls) == {calls[i].op : i \in DOMAIN calls}

CountOp(calls, op) == Cardinality({i \in DOMAIN calls : calls[i].op = op})

CountAnswered(calls, op, ok) ==
    Cardinality({i \in DOMAIN calls : calls[i].op = op /\ calls[i].ok = ok})

-----------------------------------------------------------------------------
(* AIContentGenerator.generate *)

DefaultMaxRetries == 3
BackoffBase == 5

RECURSIVE Pow2(_)
Pow2(n) == IF n = 0 THEN 1 ELSE 2 * Pow2(n - 1)

\* What model.generate_content can do: return a response with a text, or raise.
Texts == {<<"Join", "us">>, <<>>, <<" ">>}
RateLimitErrors == {<<"429 Too Many Requests">>, <<"Resource exhausted">>}
OtherErrors == {<<"500 Internal error">>}
GenResponses ==
    {[ok |-> TRUE, val |-> t] : t \in Texts}
    \cup {[ok |-> FALSE, val |-> e] : e \in RateLimitErrors \cup OtherErrors}

\* '429' in str(e) or 'Resource exhausted' in str(e)
IsRateLimit(e) == e \in RateLimitErrors

\* The scripts of the generator: its answer to the 1st, 2nd, ... call, if asked.
GenScripts == [1..DefaultMaxRetries -> GenResponses]

RECURSIVE GenerateFrom_flat_backoff(_, _, _, _, _)
GenerateFrom_flat_backoff(prompt, responses, max_retries, attempt, calls) ==
    IF attempt >= max_retries THEN [result |-> None, calls |-> calls]
    ELSE LET r == responses[attempt + 1]
             called == Append(calls, [StepText("generate_content", prompt) EXCEPT !.ok = r.ok, !.out = r.val])
         IN  IF r.ok THEN [result |-> r.val, calls |-> called]
             ELSE IF IsRateLimit(r.val) /\ attempt < max_retries - 1
                  THEN GenerateFrom_flat_backoff(prompt, responses, max_retries, attempt + 1,
                           Append(called, [Step("sleep") EXCEPT !.n = BackoffBase]))
                  ELSE [result |-> None, calls |-> called]

RECURSIVE GenerateFrom_retry_any(_, _, _, _, _)
GenerateFrom_retry_any(prompt, responses, max_retries, attempt, calls) ==
    IF attempt >= max_retries THEN [result |-> None, calls |-> calls]
    ELSE LET r == responses[attempt + 1]
             called == Append(calls, [StepText("generate_content", prompt) EXCEPT !.ok = r.ok, !.out = r.val])
         IN  IF r.ok THEN [result |-> r.val, calls |-> called]
             ELSE IF attempt < max_retries - 1
                  THEN GenerateFrom_retry_any(prompt, responses, max_retries, attempt + 1,
                           Append(called, [Step("sleep") EXCEPT !.n = BackoffBase * Pow2(attempt)]))
                  ELSE [result |-> None, calls |-> called]

RECURSIVE GenerateFrom_sleep_always(_, _, _, _, _)
GenerateFrom_sleep_always(prompt, responses, max_retries, attempt, calls) ==
    IF attempt >= max_retries THEN [result |-> None, calls |-> calls]
    ELSE LET r == responses[attempt + 1]
             called == Append(calls, [StepText("generate_content", prompt) EXCEPT !.ok = r.ok, !.out = r.val])
         IN  IF r.ok THEN [result |-> r.val, calls |-> called]
             ELSE IF IsRateLimit(r.val)
                  THEN GenerateFrom_sleep_always(prompt, responses, max_retries, attempt + 1,
                           Append(called, [Step("sleep") EXCEPT !.n = BackoffBase * Pow2(attempt)]))
                  ELSE [result |-> None, calls |-> called]

RECURSIVE GenerateFrom(_, _, _, _, _)
GenerateFrom(prompt, responses, max_retries, attempt, calls) ==
    IF attempt >= max_retries THEN [result |-> None, calls |-> calls]
    ELSE LET r == responses[attempt + 1]
             called == Append(calls, [StepText("generate_content", prompt) EXCEPT !.ok = r.ok, !.out = r.val])
         IN  IF r.ok THEN [result |-> r.val, calls |-> called]
             ELSE IF IsRateLimit(r.val) /\ attempt < max_retries - 1
                  THEN GenerateFrom(prompt, responses, max_retries, attempt + 1,
                           Append(called, [Step("sleep") EXCEPT !.n = BackoffBase * Pow2(attempt)]))
                  ELSE [result |-> None, calls |-> called]

\* generate(prompt, max_retries = 3), against a generator that answers by `responses`
generate(prompt, responses) == GenerateFrom(prompt, responses, DefaultMaxRetries, 0, <<>>)

-----------------------------------------------------------------------------
(* The prompts, as far as the workflows depend on them *)

\* AIContentGenerator.generate_holiday_post
holiday_prompt(holiday_name) == <<"Generate a holiday greeting post. Holiday: ">> \o holiday_name

\* AIContentGenerator.generate_facebook_post (the body is short of 3000 characters here)
facebook_prompt(subject, body) == <<"Facebook post from an email. Subject: ">> \o subject \o <<"Content: ">> \o body

\* AIContentGenerator.generate_event_post, for the event and its formatted time
event_prompt(event, formatted_time) ==
    <<"Announce this event. Event: ", event, "Time: ">> \o formatted_time

\* AIContentGenerator.generate_custom_post
custom_prompt(topic, context) ==
    <<"Post for the community about: ">> \o topic \o <<"Additional context: ">> \o context

LinkTrailer == <<"\n\nRead the full minutes: ">>

MaxContentChars == 8000
TruncationMarker == <<"...\n[Content truncated]">>

truncate_content_at_limit(content) ==
    IF Len(content) >= MaxContentChars
    THEN SubSeq(content, 1, MaxContentChars) \o TruncationMarker
    ELSE content

\* The content generate_meeting_minutes_post puts in its prompt:
\* content[:8000] + "...\n[Content truncated]" if len(content) > 8000
truncate_content(content) ==
    IF Len(content) > MaxContentChars
    THEN SubSeq(content, 1, MaxContentChars) \o TruncationMarker
    ELSE content

\* The prompt of generate_meeting_minutes_post, for the content as truncated
minutes_prompt(subject, content, is_from_document) ==
    <<"Announce meeting minutes. Subject: ">> \o subject
    \o <<IF is_from_document THEN "Content from meeting minutes document:" ELSE "Content from email:">>
    \o content
    \o <<"Requirements: ...">>

generate_meeting_minutes_post_trailer_always(subject, content, drive_link, is_from_document, responses) ==
    LET g == generate(minutes_prompt(subject, truncate_content(content), is_from_document), responses)
    IN  [result |-> IF Truthy(drive_link)
                    THEN (IF g.result = None THEN <<>> ELSE g.result) \o LinkTrailer \o drive_link
                    ELSE g.result,
         calls |-> g.calls]

\* AIContentGenerator.generate_meeting_minutes_post
generate_meeting_minutes_post(subject, content, drive_link, is_from_document, responses) ==
    LET g == generate(minutes_prompt(subject, truncate_content(content), is_from_document), responses)
    IN  [result |-> IF Truthy(g.result) /\ Truthy(drive_link)
                    THEN g.result \o LinkTrailer \o drive_link
                    ELSE g.result,
         calls |-> g.calls]

-----------------------------------------------------------------------------
(* FacebookPoster *)

MaxAttachedImages == 10

post_text_always_true(message, ok) ==
    [result |-> TRUE, calls |-> <<Answered(StepText("publish_text", message), ok)>>]

post_text_twice(message, ok) ==
    [result |-> ok, calls |-> <<Answered(StepText("publish_text", message), ok),
                                Answered(StepText("publish_text", message), ok)>>]

\* FacebookPoster.post_text: one request to the page feed; ok is whether it answered 200
post_text(message, ok) ==
    [result |-> ok, calls |-> <<Answered(StepText("publish_text", message), ok)>>]

\* The photo id the provider assigns to an uploaded image
PhotoId(image) == image + 100

RECURSIVE UploadAll_stop_at_failure(_, _, _, _, _)
UploadAll_stop_at_failure(images, uploads, idx, uploaded_ids, calls) ==
    IF idx > Len(images) THEN [uploaded_ids |-> uploaded_ids, calls |-> calls]
    ELSE IF ~uploads[idx]
    THEN [uploaded_ids |-> uploaded_ids,
          calls |-> Append(calls, Answered([Step("upload_image") EXCEPT !.n = images[idx]], FALSE))]
    ELSE UploadAll_stop_at_failure(images, uploads, idx + 1,
             Append(uploaded_ids, PhotoId(images[idx])),
             Append(calls, Answered([Step("upload_image") EXCEPT !.n = images[idx]], TRUE)))

\* The loop of post_with_images over images[:10]: _upload_image for each, in order
RECURSIVE UploadAll(_, _, _, _, _)
UploadAll(images, uploads, idx, uploaded_ids, calls) ==
    IF idx > Len(images) THEN [uploaded_ids |-> uploaded_ids, calls |-> calls]
    ELSE UploadAll(images, uploads, idx + 1,
             IF uploads[idx] THEN Append(uploaded_ids, PhotoId(images[idx])) ELSE uploaded_ids,
             Append(calls, Answered([Step("upload_image") EXCEPT !.n = images[idx]], uploads[idx])))

post_with_images_no_fallback(message, images, uploads, ok) ==
    IF images = <<>> THEN post_text(message, ok)
    ELSE LET first == SubSeq(images, 1, IF Len(images) < MaxAttachedImages THEN Len(images) ELSE MaxAttachedImages)
             up == UploadAll(first, uploads, 1, <<>>, <<>>)
         IN  IF up.uploaded_ids = <<>>
             THEN [result |-> FALSE, calls |-> up.calls]
             ELSE [result |-> ok,
                   calls |-> Append(up.calls,
                       Answered([Step("publish_media") EXCEPT !.text = message, !.media = up.uploaded_ids], ok))]

\* FacebookPoster.post_with_images; uploads[i] is whether the i-th upload returns a photo id
post_with_images(message, images, uploads, ok) ==
    IF images = <<>> THEN post_text(message, ok)
    ELSE LET first == SubSeq(images, 1, IF Len(images) < MaxAttachedImages THEN Len(images) ELSE MaxAttachedImages)
             up == UploadAll(first, uploads, 1, <<>>, <<>>)
         IN  IF up.uploaded_ids = <<>>
             THEN [result |-> ok, calls |-> up.calls \o post_text(message, ok).calls]
             ELSE [result |-> ok,
                   calls |-> Append(up.calls,
                       Answered([Step("publish_media") EXCEPT !.text = message, !.media = up.uploaded_ids], ok))]

-----------------------------------------------------------------------------
(* GmailHandler: labels *)

UNREAD == "UNREAD"
INBOX == "INBOX"
MeetingMinutesLabel == "Meeting Minutes"
PostedLabel == "Posted"

\* The id the mailbox gives to a user label
LabelId(label_name) ==
    CASE label_name = MeetingMinutesLabel -> "Label_1"
      [] label_name = PostedLabel -> "Label_2"

\* GmailHandler.get_or_create_label.  listOK, createOK: whether labels().list and
\* labels().create answer; existing: the names of the labels of the mailbox.
get_or_create_label(existing, label_name, listOK, createOK) ==
    IF ~listOK
    THEN [label_id |-> None, existing |-> existing, calls |-> <<Answered(Step("labels_list"), FALSE)>>]
    ELSE IF label_name \in existing
    THEN [label_id |-> <<LabelId(label_name)>>, existing |-> existing, calls |-> <<Step("labels_list")>>]
    ELSE IF createOK
    THEN [label_id |-> <<LabelId(label_name)>>, existing |-> existing \cup {label_name},
          calls |-> <<Step("labels_list"), Step("labels_create")>>]
    ELSE [label_id |-> None, existing |-> existing,
          calls |-> <<Step("labels_list"), Answered(Step("labels_create"), FALSE)>>]

modify_message_keep_unread(mlabels, message_id, add_labels, remove_labels, ok) ==
    [labels |-> IF ok THEN (mlabels \cup add_labels) \ (remove_labels \ {UNREAD}) ELSE mlabels,
     calls |-> <<[Step("modify") EXCEPT !.m = message_id, !.add = add_labels, !.rem = remove_labels,
                                        !.ok = ok]>>]

\* GmailHandler.modify_message.  mlabels: the label ids of the message; ok: whether
\* messages().modify answers, in which case the mailbox adds and removes the ids.
modify_message(mlabels, message_id, add_labels, remove_labels, ok) ==
    [labels |-> IF ok THEN (mlabels \cup add_labels) \ remove_labels ELSE mlabels,
     calls |-> <<[Step("modify") EXCEPT !.m = message_id, !.add = add_labels, !.rem = remove_labels,
                                        !.ok = ok]>>]

mark_as_processed_always_archive(mlabels, existing, message_id, label_name, listOK, createOK, modifyOK) ==
    LET l == get_or_create_label(existing, label_name, listOK, createOK)
        mod == modify_message(mlabels, message_id,
                   IF Truthy(l.label_id) THEN Range(l.label_id) ELSE {}, {UNREAD, INBOX}, modifyOK)
    IN  [labels |-> mod.labels, existing |-> l.existing, calls |-> l.calls \o mod.calls]

mark_as_processed_inbox_only(mlabels, existing, message_id, label_name, listOK, createOK, modifyOK) ==
    LET l == get_or_create_label(existing, label_name, listOK, createOK)
        mod == IF Truthy(l.label_id)
               THEN modify_message(mlabels, message_id, Range(l.label_id), {INBOX}, modifyOK)
               ELSE modify_message(mlabels, message_id, {}, {}, modifyOK)
    IN  [labels |-> mod.labels, existing |-> l.existing, calls |-> l.calls \o mod.calls]

\* GmailHandler.mark_as_processed
mark_as_processed(mlabels, existing, message_id, label_name, listOK, createOK, modifyOK) ==
    LET l == get_or_create_label(existing, label_name, listOK, createOK)
        mod == IF Truthy(l.label_id)
               THEN modify_message(mlabels, message_id, Range(l.label_id), {UNREAD, INBOX}, modifyOK)
               ELSE modify_message(mlabels, message_id, {}, {UNREAD}, modifyOK)
    IN  [labels |-> mod.labels, existing |-> l.existing, calls |-> l.calls \o mod.calls]

-----------------------------------------------------------------------------
(* DriveHandler.upload_file *)

DriveLink == <<"https://drive.example/file">>

DriveOutcomes == {"uploaded", "unconfigured", "create_failed", "permission_failed"}

\* outcome: what the file store does with this upload
upload_file(outcome) ==
    CASE outcome = "unconfigured" -> [link |-> None, calls |-> <<>>]
      [] outcome = "create_failed" -> [link |-> None, calls |-> <<Answered(Step("files_create"), FALSE)>>]
      [] outcome = "permission_failed" ->
             [link |-> None,
              calls |-> <<Step("files_create"), Answered(Step("permissions_create"), FALSE)>>]
      [] outcome = "uploaded" ->
             [link |-> DriveLink, calls |-> <<Step("files_create"), Step("permissions_create")>>]

-----------------------------------------------------------------------------
(* Config, GoogleAPIManager and the dispatch of main *)

validate_token_only(c) ==
    IF ~Truthy(c.fb_token) THEN <<"FACEBOOK_ACCESS_TOKEN is required">>
    ELSE None

\* Config.validate: the error it raises, or None
validate(c) ==
    IF ~Truthy(c.fb_token) THEN <<"FACEBOOK_ACCESS_TOKEN is required">>
    ELSE IF ~Truthy(c.gemini_api_key) THEN <<"GEMINI_API_KEY is required">>
    ELSE None

\* Config.has_google_credentials
has_google_credentials(c) ==
    Truthy(c.google_client_id) /\ Truthy(c.google_client_secret) /\ Truthy(c.google_refresh_token)

\* The services of GoogleAPIManager._initialize_services, in the order it builds them
GoogleServices == <<"calendar", "gmail", "drive">>

\* GoogleAPIManager._initialize_services when the first `built` calls of build return and
\* the next one, if any, raises: the services built so far stay, the rest are absent
initialize_services(built) ==
    [services |-> {GoogleServices[i] : i \in 1..built},
     calls |-> [i \in 1..(IF built < Len(GoogleServices) THEN built + 1 ELSE built) |->
                   Answered(StepText("build", <<GoogleServices[i]>>), i <= built)]]

\* GoogleAPIManager.__init__
GoogleAPIManager(c, built) ==
    IF has_google_credentials(c) THEN initialize_services(built)
    ELSE [services |-> {}, calls |-> <<>>]

\* GoogleAPIManager.get(service_name) is not None
HasService(service_name) == service_name \in services

RunModes == {"calendar", "holidays", "meeting_minutes", "facebook_posts", "custom", "both", "weekly"}

Plan_calendar_first(mode) ==
    IF mode = "both" THEN <<"calendar", "holidays", "meeting_minutes", "facebook_posts">>
    ELSE IF mode \in {"calendar", "holidays", "meeting_minutes", "facebook_posts", "custom"}
    THEN <<mode>>
    ELSE <<>>

\* The workflows main calls for a mode, in the order it calls them
Plan(mode) ==
    IF mode = "both" THEN <<"holidays", "calendar", "meeting_minutes", "facebook_posts">>
    ELSE IF mode \in {"calendar", "holidays", "meeting_minutes", "facebook_posts", "custom"}
    THEN <<mode>>
    ELSE <<>>

\* main is about to call workflow w: the workflow it called before has returned.
\* (Where a workflow is studied alone it is called again and again, each call standing
\* for a run of the process in the mode of that workflow: up to MaxRuns calls, which
\* are counted, or calls without end by a schedule, which are not.)
CanCall(w) ==
    /\ run = "idle"
    /\ IF pc = "detached" THEN runs < MaxRuns
       ELSE IF pc = "scheduled" THEN TRUE
       ELSE /\ pc = "workflows"
            /\ Len(ran) < Len(Plan(config.run_mode))
            /\ Plan(config.run_mode)[Len(ran) + 1] = w

Called(w) ==
    /\ runs' = IF pc = "scheduled" THEN runs ELSE runs + 1
    /\ ran' = IF pc \in {"detached", "scheduled"} THEN ran ELSE Append(ran, w)
    /\ UNCHANGED <<config, services, pc>>

-----------------------------------------------------------------------------
(* The mailbox and the two email workflows *)

MsgIds == 1..NumMsgs

MaxResults == 5

MinutesQuery == "meeting minutes"
PostQuery == "Post to Facebook"

\* What a message can be: the query its subject matches, its From header, whether it
\* carries a document attachment, and its image parts.
Msg(subject, from, doc, n) ==
    [subject |-> subject, from |-> from, doc |-> doc, images |-> [i \in 1..n |-> i]]

MsgShapes ==
    << Msg(MinutesQuery, <<"b">>, TRUE, 0),
       Msg(MinutesQuery, <<"b">>, FALSE, 0),
       Msg(PostQuery, <<"B", " ", "<", "a", ">">>, FALSE, MaxImages),
       Msg(PostQuery, <<"b">>, FALSE, MaxImages),
       Msg(PostQuery, <<"B", " ", "<", "a", ">">>, FALSE, 0) >>

\* The mailboxes the workflows are run against: NumMsgs consecutive shapes, from any start
Mailboxes ==
    {[m \in MsgIds |-> MsgShapes[((m + k) % Len(MsgShapes)) + 1]] : k \in 1..Len(MsgShapes)}

\* APPROVED_EMAIL_SENDERS: unset or empty, blank entries only, one address
CfgEnvs == {<<>>, <<" ", ",", " ">>, <<"A">>}

Body == <<"body of the email">>
DocumentText == <<"text of the document">>

\* The generator scripts the workflows are run against
\* (it answers every call alike: with one of its texts, or with a rate-limit error)
WfGenScripts ==
    {[i \in 1..DefaultMaxRetries |-> r] :
        r \in {g \in GenResponses : g.ok \/ g.val = <<"429 Too Many Requests">>}}

\* The answers of the file store the workflows are run against
WfDriveOutcomes == {"uploaded", "create_failed", "permission_failed"}

NoHandler == [m |-> 0, wf |-> "none", outcome |-> "none", before |-> {}]

get_messages_unguarded(service, query, listOK) ==
    LET Matches(m) == msgs[m].subject = query /\ UNREAD \in labels[m]
        all == SelectSeq([i \in DOMAIN msgs |-> i], Matches)
        answered == service /\ listOK
    IN  [messages |-> IF answered
                      THEN SubSeq(all, 1, IF Len(all) < MaxResults THEN Len(all) ELSE MaxResults)
                      ELSE <<>>,
         calls |-> <<Answered(StepText("messages_list", <<query, "is:unread">>), answered)>>]

\* GmailHandler.get_messages: nothing, and no call, without a service; else the unread
\* messages matching the query, in the mailbox's order, at most max_results of them;
\* nothing when the list call fails.
get_messages(service, query, listOK) ==
    LET Matches(m) == msgs[m].subject = query /\ UNREAD \in labels[m]
        all == SelectSeq([i \in DOMAIN msgs |-> i], Matches)
    IN  IF ~service THEN [messages |-> <<>>, calls |-> <<>>]
        ELSE [messages |-> IF listOK
                           THEN SubSeq(all, 1, IF Len(all) < MaxResults THEN Len(all) ELSE MaxResults)
                           ELSE <<>>,
              calls |-> <<Answered(StepText("messages_list", <<query, "is:unread">>), listOK)>>]

\* The first lines of run_meeting_minutes_workflow and run_facebook_post_workflow
StartWorkflow(query, w) ==
    /\ CanCall(w)
    /\ Called(w)
    /\ \E listOK \in BOOLEAN :
          LET got == get_messages(HasService("gmail"), query, listOK)
          IN  /\ pending' = got.messages
              /\ run' = IF got.messages = <<>> THEN "idle" ELSE query
              /\ trace' = got.calls
    /\ last' = [NoHandler EXCEPT !.wf = query, !.outcome = "listed"]
    /\ UNCHANGED <<env, msgs, labels, userLabels, published, marked, stored>>
    /\ UNCHANGED <<arg, ret>>
    /\ UNCHANGED holidayVars

run_meeting_minutes_workflow == StartWorkflow(MinutesQuery, "meeting_minutes")

run_facebook_post_workflow == StartWorkflow(PostQuery, "facebook_posts")

Finish_abort_batch(m, calls, outcome, mlabels, existing, modified) ==
    /\ trace' = calls
    /\ last' = [m |-> m, wf |-> run, outcome |-> outcome, before |-> labels[m]]
    /\ labels' = [labels EXCEPT ![m] = mlabels]
    /\ userLabels' = existing
    /\ published' = IF outcome = "published" THEN [published EXCEPT ![m] = @ + 1] ELSE published
    /\ marked' = IF outcome = "published" /\ modified
                  THEN [marked EXCEPT ![m] = TRUE] ELSE marked
    /\ stored' = [t \in DOMAIN stored |->
                     IF t = m THEN stored[t] + CountAnswered(calls, "files_create", TRUE)
                     ELSE stored[t]]
    /\ pending' = IF outcome \in {"published", "unauthorized"} THEN Tail(pending) ELSE <<>>
    /\ run' = IF pending' = <<>> THEN "idle" ELSE run
    /\ UNCHANGED <<env, msgs, runs>>
    /\ UNCHANGED <<arg, ret>>
    /\ UNCHANGED holidayVars
    /\ UNCHANGED procVars

Finish_uncaught(m, calls, outcome, mlabels, existing, modified) ==
    /\ trace' = calls
    /\ last' = [m |-> m, wf |-> run, outcome |-> outcome, before |-> labels[m]]
    /\ labels' = [labels EXCEPT ![m] = mlabels]
    /\ userLabels' = existing
    /\ published' = IF outcome = "published" THEN [published EXCEPT ![m] = @ + 1] ELSE published
    /\ marked' = IF outcome = "published" /\ modified
                  THEN [marked EXCEPT ![m] = TRUE] ELSE marked
    /\ stored' = [t \in DOMAIN stored |->
                     IF t = m THEN stored[t] + CountAnswered(calls, "files_create", TRUE)
                     ELSE stored[t]]
    /\ pending' = IF outcome \in {"published", "unauthorized"} THEN Tail(pending) ELSE <<>>
    /\ run' = IF pending' = <<>> THEN "idle" ELSE run
    /\ pc' = IF outcome \in {"published", "unauthorized"} \/ pc = "detached" THEN pc ELSE "exited"
    /\ UNCHANGED <<env, msgs, runs>>
    /\ UNCHANGED <<arg, ret>>
    /\ UNCHANGED holidayVars
    /\ UNCHANGED <<config, services, ran>>

\* The end of a handler: its calls and outcome are recorded, the loop moves on.
Finish(m, calls, outcome, mlabels, existing, modified) ==
    /\ trace' = calls
    /\ last' = [m |-> m, wf |-> run, outcome |-> outcome, before |-> labels[m]]
    /\ labels' = [labels EXCEPT ![m] = mlabels]
    /\ userLabels' = existing
    /\ published' = IF outcome = "published" THEN [published EXCEPT ![m] = @ + 1] ELSE published
    /\ marked' = IF outcome = "published" /\ modified
                  THEN [marked EXCEPT ![m] = TRUE] ELSE marked
    /\ stored' = [t \in DOMAIN stored |->
                     IF t = m THEN stored[t] + CountAnswered(calls, "files_create", TRUE)
                     ELSE stored[t]]
    /\ pending' = Tail(pending)
    /\ run' = IF Tail(pending) = <<>> THEN "idle" ELSE run
    /\ UNCHANGED <<env, msgs, runs>>
    /\ UNCHANGED <<arg, ret>>
    /\ UNCHANGED holidayVars
    /\ UNCHANGED procVars

\* The end of a handler that published: mark_as_processed, then Finish
FinishPublished(m, calls, label_name) ==
    \E listOK \in BOOLEAN, createOK \in BOOLEAN, modifyOK \in BOOLEAN :
        LET mk == mark_as_processed(labels[m], userLabels, m, label_name, listOK, createOK, modifyOK)
        IN  Finish(m, calls \o mk.calls, "published", mk.labels, mk.existing, modifyOK)

\* HOAPoster._process_meeting_minutes for the next listed message
process_meeting_minutes ==
    /\ run = MinutesQuery
    /\ pending # <<>>
    /\ LET m == Head(pending)
        IN  \E fetchOK \in BOOLEAN :
              LET got == <<Answered(StepMsg("messages_get", m), fetchOK)>> IN
              IF ~fetchOK THEN Finish(m, got, "fetch_failed", labels[m], userLabels, FALSE)
              ELSE
                \E attOK \in (IF msgs[m].doc THEN BOOLEAN ELSE {FALSE}) :
                \E textOK \in (IF attOK THEN BOOLEAN ELSE {FALSE}) :
                \E drive \in (IF attOK /\ HasService("drive") THEN WfDriveOutcomes ELSE {"unconfigured"}) :
                \E responses \in WfGenScripts :
                  LET extracted == got \o <<Step("extract_header"), Step("extract_body")>>
                                   \o (IF msgs[m].doc THEN <<Step("extract_attachment"), Answered(StepMsg("attachments_get", m), attOK)>>
                                       ELSE <<Step("extract_attachment")>>)
                                   \o (IF attOK THEN <<Answered(Step("extract_text"), textOK)>> ELSE <<>>)
                      up == IF attOK THEN upload_file(drive) ELSE [link |-> None, calls |-> <<>>]
                      document_text == IF textOK THEN DocumentText ELSE <<>>
                      content == IF document_text # <<>> THEN document_text ELSE Body
                      g == generate_meeting_minutes_post(<<MinutesQuery>>, content, up.link,
                               document_text # <<>>, responses)
                      generated == extracted \o up.calls \o g.calls
                  IN  IF ~Truthy(g.result)
                      THEN Finish(m, generated, "generation_failed", labels[m], userLabels, FALSE)
                      ELSE \E postOK \in BOOLEAN :
                             LET p == post_text(g.result, postOK)
                             IN  IF ~p.result
                                 THEN Finish(m, generated \o p.calls, "publish_failed", labels[m], userLabels, FALSE)
                                 ELSE FinishPublished(m, generated \o p.calls, MeetingMinutesLabel)

\* HOAPoster._process_facebook_post_request for the next listed message
process_facebook_post_request ==
    /\ run = PostQuery
    /\ pending # <<>>
    /\ LET m == Head(pending)
        IN  \E fetchOK \in BOOLEAN :
              LET got == <<Answered(StepMsg("messages_get", m), fetchOK)>> IN
              IF ~fetchOK THEN Finish(m, got, "fetch_failed", labels[m], userLabels, FALSE)
              ELSE
                LET sender == extract_sender_email(msgs[m].from)
                    checked == got \o <<Step("extract_sender_email"),
                                        StepText("is_approved_sender", sender)>>
                IN  IF ~is_approved_sender(parse_approved_senders(env), sender)
                    THEN \E modifyOK \in BOOLEAN :
                           LET mod == modify_message(labels[m], m, {}, {UNREAD}, modifyOK)
                           IN  Finish(m, checked \o mod.calls, "unauthorized", mod.labels, userLabels, modifyOK)
                    ELSE
                      \E imagesOK \in (IF msgs[m].images = <<>> THEN {TRUE} ELSE BOOLEAN) :
                      \E responses \in WfGenScripts :
                        LET images == IF imagesOK THEN msgs[m].images ELSE <<>>
                            extracted == checked \o <<Step("extract_header"), Step("extract_body"),
                                                      Answered(Step("extract_images"), imagesOK)>>
                            g == generate(facebook_prompt(<<PostQuery>>, Body), responses)
                            generated == extracted \o g.calls
                        IN  IF ~Truthy(g.result)
                            THEN Finish(m, generated, "generation_failed", labels[m], userLabels, FALSE)
                            ELSE \E uploads \in [DOMAIN images -> BOOLEAN], postOK \in BOOLEAN :
                                   LET p == post_with_images(g.result, images, uploads, postOK)
                                   IN  IF ~p.result
                                       THEN Finish(m, generated \o p.calls, "publish_failed",
                                                labels[m], userLabels, FALSE)
                                       ELSE FinishPublished(m, generated \o p.calls, PostedLabel)

MailInit ==
    /\ env \in CfgEnvs
    /\ msgs \in Mailboxes
    /\ labels = [m \in MsgIds |-> {UNREAD, INBOX}]
    /\ userLabels = {}
    /\ run = "idle"
    /\ pending = <<>>
    /\ published = [m \in MsgIds |-> 0]
    /\ marked = [m \in MsgIds |-> FALSE]
    /\ stored = <<>>

-----------------------------------------------------------------------------
(* Content extraction: the part tree of a message *)

\* str.startswith(prefix)
StartsWith(s, prefix) == Len(s) >= Len(prefix) /\ SubSeq(s, 1, Len(prefix)) = prefix

\* A part that carries a body, and a part that carries parts ('parts' in part)
Part(mimeType, filename, data, attachmentId) ==
    [mimeType |-> mimeType, filename |-> filename,
     body |-> [data |-> data, attachmentId |-> attachmentId],
     multipart |-> FALSE, parts |-> <<>>]

Multipart(mimeType, parts) ==
    [mimeType |-> mimeType, filename |-> <<>>,
     body |-> [data |-> None, attachmentId |-> None],
     multipart |-> TRUE, parts |-> parts]

\* base64.urlsafe_b64decode, token by token: the bytes a base64url text stands for
B64Token(t) ==
    CASE t = "dDE" -> "t1" [] t = "aHQ" -> "ht" [] t = "_9g" -> "<ff d8>"
      [] t = "iVA" -> "<89 50>" [] t = "JVA" -> "%P" [] OTHER -> t

urlsafe_b64decode(data) == [i \in DOMAIN data |-> B64Token(data[i])]

\* The byte sequences that are not UTF-8
NotUtf8 == {"<ff d8>", "<89 50>"}

\* bytes.decode('utf-8'): the text, or None where it raises UnicodeDecodeError
decode_utf8(bytes) == IF \E i \in DOMAIN bytes : bytes[i] \in NotUtf8 THEN None ELSE bytes

\* What attachments().get answers for an attachment id: it raises, or answers with data
AttIds == {<<"att1">>, <<"att2">>}
FetchAnswers == {"raise", "empty", "data"}

AttachmentData(id) == IF id = <<"att1">> THEN <<"iVA">> ELSE <<"JVA">>

attachments_get(id, fetch) ==
    [raised |-> fetch[id] = "raise",
     data |-> IF fetch[id] = "data" THEN AttachmentData(id) ELSE <<>>,
     calls |-> <<Answered(StepText("attachments_get", id), fetch[id] # "raise")>>]

\* GmailHandler.extract_body: the first top-level part of type text/plain that has data,
\* else the body of the payload itself; "" when there is no data or decoding raises
extract_body(payload) ==
    LET HasText(p) == p.mimeType = <<"text/", "plain">> /\ Truthy(p.body.data)
        plain == IF payload.multipart THEN SelectSeq(payload.parts, HasText) ELSE <<>>
        data == IF plain # <<>> THEN plain[1].body.data ELSE payload.body.data
    IN  IF ~Truthy(data) THEN <<>>
        ELSE LET text == decode_utf8(urlsafe_b64decode(data))
             IN  IF text = None THEN <<>> ELSE text

LowerExt(t) ==
    CASE t = ".PDF" -> ".pdf" [] t = ".DOCX" -> ".docx" [] t = ".DOC" -> ".doc" [] OTHER -> t

\* DocumentProcessor._is_supported_document: the file name ends in .pdf, .docx or .doc
is_supported_document(filename) ==
    Truthy(filename) /\ LowerExt(filename[Len(filename)]) \in {".pdf", ".docx", ".doc"}

\* DocumentProcessor._get_mime_type
get_mime_type(filename) ==
    LET ext == LowerExt(filename[Len(filename)])
    IN  CASE ext = ".pdf" -> <<"application/", "pdf">>
          [] ext = ".docx" -> <<"application/", "vnd.openxmlformats-officedocument.wordprocessingml.document">>
          [] ext = ".doc" -> <<"application/", "msword">>
          [] OTHER -> <<"application/", "octet-stream">>

NoAttachment == [filename |-> None, file_data |-> None, mime_type |-> None]

\* DocumentProcessor.extract_attachment: the first top-level part with a supported file
\* name and an attachment id; nothing when its fetch raises
extract_attachment(payload, fetch) ==
    LET IsDoc(p) == is_supported_document(p.filename) /\ Truthy(p.body.attachmentId)
        docs == SelectSeq(payload.parts, IsDoc)
    IN  IF docs = <<>> THEN NoAttachment @@ [calls |-> <<>>]
        ELSE LET got == attachments_get(docs[1].body.attachmentId, fetch)
             IN  IF got.raised THEN NoAttachment @@ [calls |-> got.calls]
                 ELSE [filename |-> docs[1].filename, file_data |-> urlsafe_b64decode(got.data),
                       mime_type |-> get_mime_type(docs[1].filename), calls |-> got.calls]

\* DocumentProcessor._get_part_data: the bytes of a part, None without data;
\* raised when the fetch of its attachment raises
get_part_data(part, fetch) ==
    IF Truthy(part.body.attachmentId)
    THEN LET got == attachments_get(part.body.attachmentId, fetch)
         IN  [raised |-> got.raised,
              data |-> IF ~got.raised /\ Truthy(got.data) THEN urlsafe_b64decode(got.data) ELSE None,
              calls |-> got.calls]
    ELSE [raised |-> FALSE,
          data |-> IF Truthy(part.body.data) THEN urlsafe_b64decode(part.body.data) ELSE None,
          calls |-> <<>>]

\* part.get('filename', f'image_{len(images)}.jpg')
Digit(n) ==
    CASE n = 0 -> "0" [] n = 1 -> "1" [] n = 2 -> "2" [] n = 3 -> "3" [] n = 4 -> "4"
      [] n = 5 -> "5" [] n = 6 -> "6" [] n = 7 -> "7" [] n = 8 -> "8" [] OTHER -> "9"

ImageName(part, images) ==
    IF part.filename = None THEN <<"image_", Digit(Len(images)), ".jpg">> ELSE part.filename

RECURSIVE process_part(_, _, _)
RECURSIVE process_parts(_, _, _)

\* process_part of extract_images: acc holds the images so far, the calls made, and
\* whether an exception is on its way out of the traversal
process_part(part, fetch, acc) ==
    IF acc.raised THEN acc
    ELSE LET own ==
               IF StartsWith(part.mimeType, <<"image/">>)
               THEN LET d == get_part_data(part, fetch)
                    IN  [images |-> IF ~d.raised /\ Truthy(d.data)
                                    THEN Append(acc.images,
                                             [filename |-> ImageName(part, acc.images),
                                              data |-> d.data, mime_type |-> part.mimeType])
                                    ELSE acc.images,
                         calls |-> acc.calls \o d.calls,
                         raised |-> d.raised]
               ELSE acc
         IN  IF part.multipart THEN process_parts(part.parts, fetch, own) ELSE own

process_parts(parts, fetch, acc) ==
    IF parts = <<>> THEN acc
    ELSE process_parts(Tail(parts), fetch, process_part(Head(parts), fetch, acc))

extract_images_parts_only(payload, fetch) ==
    LET r == process_parts(payload.parts, fetch, [images |-> <<>>, calls |-> <<>>, raised |-> FALSE])
    IN  [images |-> IF r.raised THEN <<>> ELSE r.images, calls |-> r.calls]

\* DocumentProcessor.extract_images: the payload itself when it is an image, else its
\* parts; nothing when a fetch raised
extract_images(payload, fetch) ==
    LET parts == IF StartsWith(payload.mimeType, <<"image/">>) THEN <<payload>> ELSE payload.parts
        r == process_parts(parts, fetch, [images |-> <<>>, calls |-> <<>>, raised |-> FALSE])
    IN  [images |-> IF r.raised THEN <<>> ELSE r.images, calls |-> r.calls]

-----------------------------------------------------------------------------
(* HolidayManager and the Holiday workflow *)

Days == 0..MaxDay

LowerWord(w) ==
    CASE w = "Christmas" -> "christmas" [] w = "Day" -> "day" [] w = "Columbus" -> "columbus"
      [] w = "Thanksgiving" -> "thanksgiving" [] w = "(Observed)" -> "(observed)" [] OTHER -> w

LowerName(name) == [i \in DOMAIN name |-> LowerWord(name[i])]

\* needle in hay
IsInfix(needle, hay) ==
    \E i \in 0..(Len(hay) - Len(needle)) : SubSeq(hay, i + 1, i + Len(needle)) = needle

\* Two of the names of HolidayManager.MAJOR_HOLIDAYS
MAJOR_HOLIDAYS == {<<"Thanksgiving">>, <<"Christmas", "Day">>}

\* What holidays.US() can answer for a date
HolidayNames == {None, <<"Christmas", "Day">>, <<"Christmas", "Day", "(Observed)">>, <<"Columbus", "Day">>}

\* HolidayManager.should_post_holiday, for the name get_todays_holiday returned
should_post_holiday(holiday_name) ==
    IF ~Truthy(holiday_name) THEN FALSE
    ELSE \E major \in MAJOR_HOLIDAYS : IsInfix(LowerName(major), LowerName(holiday_name))

\* Is there a call of one of these ops in calls that was answered with ok?
HasAnswer(calls, ops, ok) == \E i \in DOMAIN calls : calls[i].op \in ops /\ calls[i].ok = ok

\* What is remembered of the invocations that started on one date: how many there were;
\* whether in the first the poster answered with success and the flag file was written;
\* the publish calls of all of them; the generate and publish calls of those after the
\* first; whether none saw midnight pass; whether every existence check was answered.
NoHistory == [n |-> 0, firstOK |-> FALSE, firstStored |-> FALSE, pubs |-> 0, laterCalls |-> 0,
              sameDay |-> TRUE, checksOK |-> TRUE]

\* The end of a Holiday invocation that read the clock as d1, then d2, then d3
FinishHoliday(d1, d3, calls, outcome, newFlags) ==
    /\ trace' = calls
    /\ last' = [NoHandler EXCEPT !.wf = "holiday", !.outcome = outcome]
    /\ flags' = newFlags
    /\ clock' = d3
    /\ hol' = [hol EXCEPT ![d1] =
                 [n |-> @.n + 1,
                  firstOK |-> IF @.n = 0 THEN HasAnswer(calls, {"publish_text"}, TRUE) ELSE @.firstOK,
                  firstStored |-> IF @.n = 0 THEN HasAnswer(calls, {"flag_write"}, TRUE)
                                  ELSE @.firstStored,
                  pubs |-> @.pubs + CountOp(calls, "publish_text"),
                  laterCalls |-> IF @.n = 0 THEN 0
                                 ELSE @.laterCalls + CountOp(calls, "publish_text")
                                          + CountOp(calls, "generate_content"),
                  sameDay |-> @.sameDay /\ d3 = d1,
                  checksOK |-> @.checksOK /\ ~HasAnswer(calls, {"flag_exists"}, FALSE)]]
    /\ Called("holidays")
    /\ UNCHANGED <<calendar, arg, ret>>
    /\ UNCHANGED mailVars

\* The dates a later reading of the clock can give: midnight may have passed
Later(d) == {d, d + 1} \cap Days

already_posted_today_never(d, checkOK) == FALSE

already_posted_today_pessimistic(d, checkOK) == d \in flags \/ ~checkOK

\* HolidayManager.already_posted_today('holiday') when the clock reads d;
\* checkOK: whether the file system answers the existence check
already_posted_today(d, checkOK) == d \in flags /\ checkOK

mark_posted_today_never(d, writeOK) == flags

\* HolidayManager.mark_posted_today('holiday') when the clock reads d: the flag files after it
mark_posted_today(d, writeOK) == IF writeOK THEN flags \cup {d} ELSE flags

\* HOAPoster.run_holiday_workflow
run_holiday_workflow ==
    /\ CanCall("holidays")
    /\ LET d1 == clock
            holiday_name == calendar[d1]
        IN  IF ~should_post_holiday(holiday_name)
            THEN FinishHoliday(d1, d1, <<>>, "no_holiday", flags)
            ELSE \E d2 \in Later(d1), checkOK \in BOOLEAN :
                   LET checked == <<Answered([Step("flag_exists") EXCEPT !.n = d2], checkOK)>>
                   IN  IF already_posted_today(d2, checkOK)
                       THEN FinishHoliday(d1, d2, checked, "already_posted", flags)
                       ELSE \E responses \in WfGenScripts :
                              LET g == generate(holiday_prompt(holiday_name), responses)
                              IN  IF ~Truthy(g.result)
                                  THEN FinishHoliday(d1, d2, checked \o g.calls, "generation_failed", flags)
                                  ELSE \E postOK \in BOOLEAN :
                                         LET p == post_text(g.result, postOK)
                                         IN  IF ~p.result
                                             THEN FinishHoliday(d1, d2, checked \o g.calls \o p.calls,
                                                      "publish_failed", flags)
                                             ELSE \E d3 \in Later(d2) \cap Later(d1), writeOK \in BOOLEAN :
                                                    FinishHoliday(d1, d3,
                                                        checked \o g.calls \o p.calls
                                                            \o <<Answered([Step("flag_write") EXCEPT !.n = d3], writeOK)>>,
                                                        "published", mark_posted_today(d3, writeOK))

\* Midnight passes between two runs
Midnight ==
    /\ clock < MaxDay
    /\ clock' = clock + 1
    /\ UNCHANGED <<calendar, flags, hol, runs, trace, last, arg, ret>>
    /\ UNCHANGED mailVars
    /\ UNCHANGED procVars

HolidayInit ==
    /\ calendar \in [Days -> HolidayNames]
    /\ clock = 0
    /\ flags = {}
    /\ hol = [d \in Days |-> NoHistory]

-----------------------------------------------------------------------------
(* The Event and the Custom workflows *)

\* CalendarHandler.get_upcoming_events: nothing, and no call, without a service; else the
\* items events().list answers with, in its order; nothing when the call fails.
get_upcoming_events(service, listOK, items) ==
    IF ~service THEN [events |-> <<>>, calls |-> <<>>]
    ELSE [events |-> IF listOK THEN items ELSE <<>>,
          calls |-> <<Answered([Step("events_list") EXCEPT !.n = IF listOK THEN Len(items) ELSE 0], listOK)>>]

\* CalendarHandler.format_event_time
format_event_time(event) == <<"Monday at 10:00 AM">>

\* HOAPoster.run_calendar_workflow up to its loop
run_calendar_workflow ==
    /\ CanCall("calendar")
    /\ Called("calendar")
    /\ \E listOK \in BOOLEAN, n \in 0..MaxEvents :
          LET got == get_upcoming_events(HasService("calendar"), listOK, [i \in 1..n |-> i])
          IN  /\ pending' = got.events
              /\ run' = IF got.events = <<>> THEN "idle" ELSE "calendar"
              /\ trace' = got.calls
    /\ last' = [NoHandler EXCEPT !.wf = "calendar", !.outcome = "listed"]
    /\ UNCHANGED <<env, msgs, labels, userLabels, published, marked, stored>>
    /\ UNCHANGED <<arg, ret>>
    /\ UNCHANGED holidayVars

\* The end of one round of the loop of run_calendar_workflow
FinishEvent(event, calls, outcome) ==
    /\ trace' = calls
    /\ last' = [m |-> event, wf |-> "calendar", outcome |-> outcome, before |-> {}]
    /\ pending' = Tail(pending)
    /\ run' = IF Tail(pending) = <<>> THEN "idle" ELSE run
    /\ UNCHANGED <<env, msgs, labels, userLabels, published, marked, stored, runs>>
    /\ UNCHANGED <<arg, ret>>
    /\ UNCHANGED holidayVars
    /\ UNCHANGED procVars

\* The body of the loop of run_calendar_workflow, for the next listed event
process_event ==
    /\ run = "calendar"
    /\ pending # <<>>
    /\ LET event == Head(pending)
       IN  \E responses \in WfGenScripts :
             LET g == generate(event_prompt(event, format_event_time(event)), responses)
             IN  IF ~Truthy(g.result)
                 THEN FinishEvent(event, g.calls, "generation_failed")
                 ELSE \E postOK \in BOOLEAN :
                        LET p == post_text(g.result, postOK)
                        IN  FinishEvent(event, g.calls \o p.calls,
                                IF p.result THEN "published" ELSE "publish_failed")

POST_TOPIC == <<"General HOA update">>
POST_CONTEXT == <<>>

\* HOAPoster.run_custom_workflow
run_custom_workflow ==
    /\ CanCall("custom")
    /\ Called("custom")
    /\ \E responses \in WfGenScripts :
          LET g == generate(custom_prompt(POST_TOPIC, POST_CONTEXT), responses)
          IN  IF ~Truthy(g.result)
              THEN /\ trace' = g.calls
                   /\ last' = [NoHandler EXCEPT !.wf = "custom", !.outcome = "generation_failed"]
              ELSE \E postOK \in BOOLEAN :
                     LET p == post_text(g.result, postOK)
                     IN  /\ trace' = g.calls \o p.calls
                         /\ last' = [NoHandler EXCEPT !.wf = "custom",
                                        !.outcome = IF p.result THEN "published" ELSE "publish_failed"]
    /\ UNCHANGED <<arg, ret>>
    /\ UNCHANGED mailVars
    /\ UNCHANGED holidayVars

-----------------------------------------------------------------------------
(* main *)

\* HOAPoster(): Config(), validate(), GoogleAPIManager(); an error of validate reaches
\* the except clause of main, which exits with status 1
HOAPoster_init ==
    /\ pc = "start"
    /\ IF validate(config) # None
       THEN /\ pc' = "exited"
            /\ services' = {}
            /\ trace' = <<>>
            /\ last' = [NoHandler EXCEPT !.wf = "init", !.outcome = "config_error"]
       ELSE \E built \in 0..Len(GoogleServices) :
              LET google == GoogleAPIManager(config, built)
              IN  /\ pc' = "workflows"
                  /\ services' = google.services
                  /\ trace' = google.calls
                  /\ last' = [NoHandler EXCEPT !.wf = "init", !.outcome = "initialized"]
    /\ UNCHANGED <<config, ran, runs, arg, ret>>
    /\ UNCHANGED mailVars
    /\ UNCHANGED holidayVars

\* main returns: the workflows of the mode have been called and have returned
\* (none for a mode it does not know)
main_return ==
    /\ pc = "workflows"
    /\ run = "idle"
    /\ Len(ran) = Len(Plan(config.run_mode))
    /\ pc' = "returned"
    /\ UNCHANGED <<config, services, ran, runs, trace, last, arg, ret>>
    /\ UNCHANGED mailVars
    /\ UNCHANGED holidayVars

-----------------------------------------------------------------------------
(* Specifications *)

\* The parts of the state a specification does not use
MailQuiet ==
    /\ env = <<>>
    /\ msgs = [m \in MsgIds |-> Msg(MinutesQuery, <<"b">>, FALSE, 0)]
    /\ labels = [m \in MsgIds |-> {UNREAD, INBOX}]
    /\ userLabels = {}
    /\ run = "idle"
    /\ pending = <<>>
    /\ published = [m \in MsgIds |-> 0]
    /\ marked = [m \in MsgIds |-> FALSE]
    /\ stored = <<>>

HolidayQuiet ==
    /\ calendar = [d \in Days |-> None]
    /\ clock = 0
    /\ flags = {}
    /\ hol = [d \in Days |-> NoHistory]

FnQuiet ==
    /\ arg = [fn |-> "none"]
    /\ ret = [called |-> FALSE]

RunQuiet ==
    /\ trace = <<>>
    /\ last = NoHandler
    /\ runs = 0

\* A workflow studied alone: a process with its secrets and all its services
Detached ==
    /\ config = [fb_token |-> <<"token">>, gemini_api_key |-> <<"key">>,
                 google_client_id |-> <<"id">>, google_client_secret |-> <<"secret">>,
                 google_refresh_token |-> <<"refresh">>, run_mode |-> "both"]
    /\ services = Range(GoogleServices)
    /\ pc = "detached"
    /\ ran = <<>>

\* The two email workflows, run again and again
Init == MailInit /\ HolidayQuiet /\ FnQuiet /\ RunQuiet /\ Detached

Next ==
    \/ run_meeting_minutes_workflow
    \/ process_meeting_minutes
    \/ run_facebook_post_workflow
    \/ process_facebook_post_request

Spec == Init /\ [][Next]_vars

\* The Holiday workflow, run again and again as the days pass
HolidayStart == HolidayInit /\ MailQuiet /\ FnQuiet /\ RunQuiet /\ Detached

HolidayNext == run_holiday_workflow \/ Midnight

SpecHoliday == HolidayStart /\ [][HolidayNext]_vars

\* generate, against every script of the generator
GenInit ==
    /\ arg \in {[fn |-> "generate", responses |-> r] : r \in GenScripts}
    /\ ret = [called |-> FALSE]
    /\ MailQuiet /\ HolidayQuiet /\ RunQuiet /\ Detached

call_generate ==
    /\ ~ret.called
    /\ LET g == generate(<<"prompt">>, arg.responses)
       IN  ret' = [called |-> TRUE, result |-> g.result, calls |-> g.calls]
    /\ UNCHANGED <<arg, trace, last, runs>>
    /\ UNCHANGED mailVars
    /\ UNCHANGED holidayVars
    /\ UNCHANGED procVars

SpecGen == GenInit /\ [][call_generate]_vars

\* The authorization guard, for every setting and every From header
CfgAlphabet == {"a", "A", " ", ","}
HdrAlphabet == {"a", "A", " ", "<", ">"}

AuthInit ==
    /\ arg \in {[fn |-> "is_approved_sender", senders |-> c, from_header |-> h] :
                   c \in StrUpTo(CfgAlphabet, MaxCfgLen), h \in StrUpTo(HdrAlphabet, MaxHdrLen)}
    /\ ret = [called |-> FALSE]
    /\ MailQuiet /\ HolidayQuiet /\ RunQuiet /\ Detached

\* Config() and the security check of _process_facebook_post_request
check_sender ==
    /\ ~ret.called
    /\ LET approved_senders == parse_approved_senders(arg.senders)
           sender == extract_sender_email(arg.from_header)
       IN  ret' = [called |-> TRUE, approved_senders |-> approved_senders, sender |-> sender,
                   approved |-> is_approved_sender(approved_senders, sender)]
    /\ UNCHANGED <<arg, trace, last, runs>>
    /\ UNCHANGED mailVars
    /\ UNCHANGED holidayVars
    /\ UNCHANGED procVars

SpecAuth == AuthInit /\ [][check_sender]_vars

\* post_with_images, for every number of images and every answer of the uploads
PostInit ==
    /\ arg \in UNION {{[fn |-> "post_with_images", message |-> <<"Join", "us">>,
                        images |-> [i \in 1..n |-> i], uploads |-> u, ok |-> ok] :
                           u \in [1..n -> BOOLEAN], ok \in BOOLEAN} : n \in 0..MaxListedImages}
    /\ ret = [called |-> FALSE]
    /\ MailQuiet /\ HolidayQuiet /\ RunQuiet /\ Detached

call_post_with_images ==
    /\ ~ret.called
    /\ LET p == post_with_images(arg.message, arg.images, arg.uploads, arg.ok)
       IN  ret' = [called |-> TRUE, result |-> p.result, calls |-> p.calls]
    /\ UNCHANGED <<arg, trace, last, runs>>
    /\ UNCHANGED mailVars
    /\ UNCHANGED holidayVars
    /\ UNCHANGED procVars

SpecPost == PostInit /\ [][call_post_with_images]_vars

\* generate_meeting_minutes_post, for contents of about 8000 characters.  The content is
\* a sequence of character codes here; it differs from position to position.
ContentOf(n, k) == [i \in 1..n |-> (i * k) % 251]

ContentLengths == {0, 1, MaxContentChars + 1000} \cup ((MaxContentChars - MaxMargin)..(MaxContentChars + MaxMargin))

TruncInit ==
    /\ arg \in {[fn |-> "generate_meeting_minutes_post", subject |-> <<"Minutes">>,
                  content |-> ContentOf(n, k), drive_link |-> None, is_from_document |-> d,
                  responses |-> [i \in 1..DefaultMaxRetries |-> [ok |-> TRUE, val |-> <<"Join", "us">>]]] :
                     n \in ContentLengths, k \in 1..3, d \in BOOLEAN}
    /\ ret = [called |-> FALSE]
    /\ MailQuiet /\ HolidayQuiet /\ RunQuiet /\ Detached

call_generate_meeting_minutes_post ==
    /\ ~ret.called
    /\ LET g == generate_meeting_minutes_post(arg.subject, arg.content, arg.drive_link,
                    arg.is_from_document, arg.responses)
       IN  ret' = [called |-> TRUE, result |-> g.result, calls |-> g.calls]
    /\ UNCHANGED <<arg, trace, last, runs>>
    /\ UNCHANGED mailVars
    /\ UNCHANGED holidayVars
    /\ UNCHANGED procVars

SpecTrunc == TruncInit /\ [][call_generate_meeting_minutes_post]_vars

\* generate_meeting_minutes_post, with and without a file link, against every script of
\* the generator
DriveLinks == {None, <<>>, DriveLink}

LinkInit ==
    /\ arg \in {[fn |-> "generate_meeting_minutes_post", subject |-> <<"Minutes">>,
                  content |-> c, drive_link |-> l, is_from_document |-> d, responses |-> r] :
                     c \in {Body, DocumentText}, l \in DriveLinks, d \in BOOLEAN, r \in GenScripts}
    /\ ret = [called |-> FALSE]
    /\ MailQuiet /\ HolidayQuiet /\ RunQuiet /\ Detached

SpecLink == LinkInit /\ [][call_generate_meeting_minutes_post]_vars

\* Content extraction, for every message of a family of part trees and every answer of
\* the attachment fetches.  A message is a single part, or a multipart/mixed payload of
\* up to MaxParts parts, each of them a part of Leaves inside up to MaxNest
\* multipart/alternative containers.
Leaves ==
    { Part(<<"text/", "plain">>, <<>>, <<"dDE">>, None),
      Part(<<"text/", "plain">>, <<>>, <<>>, None),
      Part(<<"text/", "html">>, <<>>, <<"aHQ">>, None),
      Part(<<"image/", "jpeg">>, <<"photo", ".jpg">>, <<"_9g">>, None),
      Part(<<"image/", "png">>, None, None, <<"att1">>),
      Part(<<"image/", "gif">>, <<"x", ".gif">>, None, None),
      Part(<<"application/", "pdf">>, <<"minutes", ".PDF">>, None, <<"att2">>) }

RECURSIVE Nest(_, _)
Nest(part, n) ==
    IF n = 0 THEN part ELSE Multipart(<<"multipart/", "alternative">>, <<Nest(part, n - 1)>>)

Elements == {Nest(p, n) : p \in Leaves, n \in 0..MaxNest}

Payloads ==
    Leaves \cup {Multipart(<<"multipart/", "mixed">>, ps) :
                    ps \in UNION {[1..k -> Elements] : k \in 0..MaxParts}}

MimeInit ==
    /\ arg \in {[fn |-> "extract", payload |-> p, fetch |-> f] :
                   p \in Payloads, f \in [AttIds -> FetchAnswers]}
    /\ ret = [called |-> FALSE]
    /\ MailQuiet /\ HolidayQuiet /\ RunQuiet /\ Detached

\* The extraction calls of the two email handlers, on one fetched message
extract ==
    /\ ~ret.called
    /\ LET att == extract_attachment(arg.payload, arg.fetch)
           img == extract_images(arg.payload, arg.fetch)
       IN  ret' = [called |-> TRUE,
                   body |-> extract_body(arg.payload),
                   filename |-> att.filename, file_data |-> att.file_data,
                   mime_type |-> att.mime_type, attachment_calls |-> att.calls,
                   images |-> img.images, image_calls |-> img.calls]
    /\ UNCHANGED <<arg, trace, last, runs>>
    /\ UNCHANGED mailVars
    /\ UNCHANGED holidayVars
    /\ UNCHANGED procVars

SpecMime == MimeInit /\ [][extract]_vars

\* An email workflow, run without end by its schedule against a mailbox of one more
\* message than a run lists.  For some of the messages every attempt to generate a post
\* fails, run after run; for the others every call is answered with success.
StarveIds == 1..(MaxResults + 1)

StarveMsg(subject, fails) ==
    [subject |-> subject, from |-> <<"a">>, doc |-> FALSE, images |-> <<>>, fails |-> fails]

StarveInit ==
    /\ env = <<"A">>
    /\ msgs \in {[m \in StarveIds |-> StarveMsg(q, m \in F)] :
                    q \in {MinutesQuery, PostQuery}, F \in SUBSET StarveIds}
    /\ labels = [m \in StarveIds |-> {UNREAD, INBOX}]
    /\ userLabels = {}
    /\ run = "idle"
    /\ pending = <<>>
    /\ published = [m \in StarveIds |-> 0]
    /\ marked = [m \in StarveIds |-> FALSE]
    /\ stored = <<>>
    /\ config = [fb_token |-> <<"token">>, gemini_api_key |-> <<"key">>,
                 google_client_id |-> <<"id">>, google_client_secret |-> <<"secret">>,
                 google_refresh_token |-> <<"refresh">>, run_mode |-> "both"]
    /\ services = Range(GoogleServices)
    /\ pc = "scheduled"
    /\ ran = <<>>
    /\ HolidayQuiet /\ FnQuiet /\ RunQuiet

\* The calls of the most recent handler were answered as the message it handled has it
AnsweredAsFated ==
    \A i \in DOMAIN trace :
        IF trace[i].op = "generate_content"
        THEN IF msgs[last.m].fails THEN ~trace[i].ok
             ELSE trace[i].ok /\ trace[i].out = <<"Join", "us">>
        ELSE trace[i].ok

\* The schedule runs the workflow whose query the messages of the mailbox match
Scheduled(query) == \A m \in DOMAIN msgs : msgs[m].subject = query

StarveNext ==
    \/ Scheduled(MinutesQuery) /\ run_meeting_minutes_workflow /\ AnsweredAsFated'
    \/ process_meeting_minutes /\ AnsweredAsFated'
    \/ Scheduled(PostQuery) /\ run_facebook_post_workflow /\ AnsweredAsFated'
    \/ process_facebook_post_request /\ AnsweredAsFated'

\* The schedule keeps calling the workflow, and a workflow that was called runs to its end
SpecStarve == StarveInit /\ [][StarveNext]_vars /\ WF_vars(StarveNext)

\* The MeetingMinutes workflow, run again and again against a mailbox of messages with
\* and without a document, with a count of the files created for each message
StoreInit ==
    /\ env = <<>>
    /\ msgs = [m \in MsgIds |-> Msg(MinutesQuery, <<"b">>, m % 2 = 1, 0)]
    /\ labels = [m \in MsgIds |-> {UNREAD, INBOX}]
    /\ userLabels = {}
    /\ run = "idle"
    /\ pending = <<>>
    /\ published = [m \in MsgIds |-> 0]
    /\ marked = [m \in MsgIds |-> FALSE]
    /\ stored = [m \in MsgIds |-> 0]
    /\ HolidayQuiet /\ FnQuiet /\ RunQuiet /\ Detached

StoreNext == run_meeting_minutes_workflow \/ process_meeting_minutes

SpecStore == StoreInit /\ [][StoreNext]_vars

\* One run of the process.  The environment: the secrets (unset, empty or set), the
\* Google refresh token, the mode; a mailbox with two meeting-minutes messages, two
\* post requests, or one of each; a day that is a major holiday or not, with or
\* without the flag file of an earlier run.
Secrets == {None, <<>>, <<"secret">>}

MainConfigs ==
    {[fb_token |-> t, gemini_api_key |-> k,
      google_client_id |-> <<"id">>, google_client_secret |-> <<"secret">>,
      google_refresh_token |-> r, run_mode |-> mode] :
         t \in Secrets, k \in Secrets, r \in {None, <<"refresh">>}, mode \in RunModes}

MainMailboxes ==
    {[m \in MsgIds |-> MsgShapes[((m + k) % Len(MsgShapes)) + 1]] : k \in {1, 4, 5}}

MainInit ==
    /\ config \in MainConfigs
    /\ services = {}
    /\ pc = "start"
    /\ ran = <<>>
    /\ env = <<"A">>
    /\ msgs \in MainMailboxes
    /\ labels = [m \in MsgIds |-> {UNREAD, INBOX}]
    /\ userLabels = {}
    /\ run = "idle"
    /\ pending = <<>>
    /\ published = [m \in MsgIds |-> 0]
    /\ marked = [m \in MsgIds |-> FALSE]
    /\ stored = <<>>
    /\ calendar \in {[d \in Days |-> IF d = 0 THEN h ELSE None] : h \in {None, <<"Christmas", "Day">>}}
    /\ clock = 0
    /\ flags \in {{}, {0}}
    /\ hol = [d \in Days |-> NoHistory]
    /\ FnQuiet /\ RunQuiet

MainNext ==
    \/ HOAPoster_init
    \/ run_holiday_workflow
    \/ run_calendar_workflow
    \/ process_event
    \/ run_meeting_minutes_workflow
    \/ process_meeting_minutes
    \/ run_facebook_post_workflow
    \/ process_facebook_post_request
    \/ run_custom_workflow
    \/ main_return

SpecMain == MainInit /\ [][MainNext]_vars

-----------------------------------------------------------------------------
(* What the claims speak of, read off the trace of the most recent handler *)

PublishOps == {"publish_text", "publish_media"}
ExtractionOps == {"extract_header", "extract_body", "extract_images", "extract_attachment", "extract_text"}
LabelOps == {"labels_list", "labels_create", "modify"}
MutationOps == {"labels_create", "modify"}

\* The most recent action was a handler of one of the two email workflows
MailHandled == last.m # 0 /\ last.wf \in {MinutesQuery, PostQuery}

FetchFailed == HasAnswer(trace, {"messages_get"}, FALSE)
PublishSucceeded == HasAnswer(trace, PublishOps, TRUE)
PublishFailed == HasAnswer(trace, PublishOps, FALSE)

\* The last call of the generator raised, or answered with an empty text
GenerationFailed ==
    \E i \in DOMAIN trace :
        /\ trace[i].op = "generate_content"
        /\ \A j \in DOMAIN trace : j > i => trace[j].op # "generate_content"
        /\ ~trace[i].ok \/ trace[i].out = <<>>

\* A modify of the handled message that removes this label id is requested
RequestsRemoval(id) ==
    \E i \in DOMAIN trace : trace[i].op = "modify" /\ trace[i].m = last.m /\ id \in trace[i].rem

\* The configured addresses, as the specification words them: the entries of the setting
\* that are not blank, trimmed and lower-cased
ConfiguredAddresses(senders) ==
    {Lower(Strip(e)) : e \in {x \in Range(Split(senders, ",")) : Strip(x) # <<>>}}

\* The sender of message m is one of the configured addresses
Authorized(m) == Lower(Strip(extract_sender_email(msgs[m].from))) \in ConfiguredAddresses(env)

LabelFor(wf) == IF wf = MinutesQuery THEN MeetingMinutesLabel ELSE PostedLabel

\* The label lookup/creation of the handler yielded a label id
LabelObtained ==
    HasAnswer(trace, {"labels_list"}, TRUE) /\ ~HasAnswer(trace, {"labels_create"}, FALSE)

-----------------------------------------------------------------------------
(* Claims *)

\* C1 (as stated): for sequential Holiday invocations on one date, if in the first the
\* generator and the poster succeed, exactly one publish call is made in total and the
\* later invocations make no generate and no publish call.
C1_OnePublishPerDay ==
    \A d \in Days :
        (hol[d].n >= 1 /\ hol[d].sameDay /\ hol[d].firstOK)
            => hol[d].pubs = 1 /\ hol[d].laterCalls = 0

\* C1 (amended): the same, provided the flag file of the first invocation was written and
\* every later existence check of the flag file was answered.
C1_OnePublishPerDayWhenRecorded ==
    \A d \in Days :
        (hol[d].n >= 1 /\ hol[d].sameDay /\ hol[d].firstOK /\ hol[d].firstStored /\ hol[d].checksOK)
            => hol[d].pubs = 1 /\ hol[d].laterCalls = 0

C1_Witness ==
    \E d \in Days :
        /\ hol[d].n >= 2 /\ hol[d].sameDay /\ hol[d].firstOK /\ hol[d].firstStored /\ hol[d].checksOK
        /\ last.outcome = "already_posted"

\* The generator answered every call with a rate-limit error
AllRateLimited ==
    \A i \in DOMAIN arg.responses : ~arg.responses[i].ok /\ IsRateLimit(arg.responses[i].val)

\* C2: when every call of the generator fails with a rate limit, generate makes exactly 3
\* attempts, sleeps 5 after the first and 10 after the second, does not sleep after the
\* third, and returns None.
C2_RetryBound ==
    (ret.called /\ AllRateLimited)
        => /\ ret.result = None
           /\ [i \in DOMAIN ret.calls |-> ret.calls[i].op]
                  = <<"generate_content", "sleep", "generate_content", "sleep", "generate_content">>
           /\ ret.calls[2].n = 5
           /\ ret.calls[4].n = 10

C2_Witness == ret.called /\ AllRateLimited /\ CountOp(ret.calls, "generate_content") = 3

\* C3: when an attempt fails with an error that is not a rate limit, generate returns None
\* at once: that attempt is its last call, whatever number of attempts remain.
C3_NoRetryOnOtherFailure ==
    ret.called =>
        \A k \in DOMAIN arg.responses :
            (CountOp(ret.calls, "generate_content") >= k
                /\ ~arg.responses[k].ok /\ ~IsRateLimit(arg.responses[k].val))
            => /\ ret.result = None
               /\ CountOp(ret.calls, "generate_content") = k
               /\ ret.calls[Len(ret.calls)].op = "generate_content"

C3_Witness ==
    /\ ret.called
    /\ ~arg.responses[1].ok /\ IsRateLimit(arg.responses[1].val)
    /\ ~arg.responses[2].ok /\ ~IsRateLimit(arg.responses[2].val)
    /\ arg.responses[3].ok
    /\ CountOp(ret.calls, "generate_content") = 2

\* C4: for a PostRequest message whose sender is not authorized, the authorization is
\* decided before any extraction of the body or the images, no generation, image upload
\* or publish call is made, and the only mailbox change requested is the removal of
\* UNREAD: INBOX is kept and no label is added.
C4_UnauthorizedIsOnlyMarkedRead ==
    (MailHandled /\ last.wf = PostQuery) =>
        /\ \A i, j \in DOMAIN trace :
               (trace[i].op \in ExtractionOps /\ trace[j].op = "is_approved_sender") => j < i
        /\ ~Authorized(last.m) =>
               /\ Ops(trace) \subseteq {"messages_get", "extract_sender_email", "is_approved_sender", "modify"}
               /\ CountOp(trace, "modify") <= 1
               /\ \A i \in DOMAIN trace :
                      trace[i].op = "modify" =>
                          trace[i].m = last.m /\ trace[i].add = {} /\ trace[i].rem = {UNREAD}
               /\ labels[last.m] \in {last.before, last.before \ {UNREAD}}
               /\ published[last.m] = 0

C4_Witness ==
    /\ MailHandled /\ last.wf = PostQuery /\ ~Authorized(last.m)
    /\ ConfiguredAddresses(env) # {}
    /\ CountOp(trace, "modify") = 1
    /\ UNREAD \notin labels[last.m] /\ INBOX \in labels[last.m]

\* The setting is empty or has blank entries only
BlankConfig == \A e \in Range(Split(env, ",")) : Strip(e) = <<>>

SenderAddresses == StrUpTo({"a", "A", "b", " "}, MaxHdrLen)

\* C5: when the approved-sender setting is empty or has blank entries only,
\* is_approved_sender is false for every address, and no PostRequest message leads to a
\* generation, an image upload or a publish call.
C5_EmptyConfigRejectsAll ==
    BlankConfig =>
        /\ \A s \in SenderAddresses : ~is_approved_sender(parse_approved_senders(env), s)
        /\ \A m \in MsgIds : msgs[m].subject = PostQuery => published[m] = 0
        /\ last.wf = PostQuery =>
               Ops(trace) \cap (PublishOps \cup {"generate_content", "upload_image"}) = {}

C5_Witness ==
    /\ BlankConfig /\ env # <<>>
    /\ MailHandled /\ last.wf = PostQuery
    /\ "is_approved_sender" \in Ops(trace)

\* C6: for a setting with at least one address, the sender is approved if and only if its
\* address, trimmed and lower-cased, equals one of the configured addresses, trimmed and
\* lower-cased.
C6_ExactMatchAfterNormalisation ==
    (ret.called /\ ConfiguredAddresses(arg.senders) # {})
        => (ret.approved <=> Lower(Strip(ret.sender)) \in ConfiguredAddresses(arg.senders))

C6_Witness ==
    /\ ret.called /\ ret.approved
    /\ ret.sender # Lower(ret.sender)
    /\ ret.sender # arg.from_header
    /\ Len(ret.approved_senders) = 2

\* C7 (as stated): after a successful publish, a generation failure or a publish failure
\* the removal of UNREAD is requested for the message, and the removal of INBOX only
\* when the publish succeeded.
C7_UnreadAlwaysRemoved ==
    (MailHandled /\ (PublishSucceeded \/ GenerationFailed \/ PublishFailed))
        => /\ RequestsRemoval(UNREAD)
           /\ RequestsRemoval(INBOX) => PublishSucceeded

\* C7 (amended): the removal of UNREAD is requested after a successful publish; after a
\* generation failure or a publish failure neither removal is requested and the message
\* keeps UNREAD; the removal of INBOX is requested only when the publish succeeded.
C7_UnreadRemovedOnPublish ==
    MailHandled =>
        /\ PublishSucceeded => RequestsRemoval(UNREAD)
        /\ (GenerationFailed \/ PublishFailed) =>
               /\ ~RequestsRemoval(UNREAD) /\ ~RequestsRemoval(INBOX)
               /\ UNREAD \in labels[last.m]
        /\ RequestsRemoval(INBOX) => PublishSucceeded
        /\ INBOX \notin labels[last.m] => published[last.m] > 0

C7_Witness ==
    /\ MailHandled /\ PublishSucceeded
    /\ RequestsRemoval(UNREAD) /\ RequestsRemoval(INBOX)
    /\ labels[last.m] \cap {UNREAD, INBOX} = {}

\* C8: no mailbox change is requested for a message before its outcome is known (a
\* successful publish or a rejection of the sender), and when the fetch, the generation
\* or the publish fails no mailbox change is requested at all: the message is still
\* unread and in the inbox.
C8_NoMutationBeforeOutcome ==
    MailHandled =>
        /\ \A i \in DOMAIN trace :
               trace[i].op \in MutationOps =>
                   /\ \A j \in DOMAIN trace : j > i => trace[j].op \in LabelOps
                   /\ PublishSucceeded \/ ("is_approved_sender" \in Ops(trace) /\ ~Authorized(last.m))
        /\ (FetchFailed \/ GenerationFailed \/ PublishFailed) =>
               /\ Ops(trace) \cap MutationOps = {}
               /\ labels[last.m] = last.before
               /\ {UNREAD, INBOX} \subseteq labels[last.m]

C8_Witness ==
    /\ MailHandled /\ PublishFailed
    /\ {UNREAD, INBOX} \subseteq labels[last.m]
    /\ runs = 2 /\ published[last.m] = 0

\* C9 (as stated): whenever the publish succeeds, one modify is requested for the message
\* that adds the label of the workflow and removes UNREAD and INBOX, whatever the label
\* lookup/creation call answers.
C9_AlwaysLabeledAndArchived ==
    (MailHandled /\ PublishSucceeded) =>
        /\ CountOp(trace, "modify") = 1
        /\ \A i \in DOMAIN trace :
               trace[i].op = "modify" =>
                   /\ trace[i].m = last.m
                   /\ trace[i].add = {LabelId(LabelFor(last.wf))}
                   /\ trace[i].rem = {UNREAD, INBOX}

\* C9 (amended): whenever the publish succeeds, one modify is requested for the message;
\* it adds the label of the workflow and removes UNREAD and INBOX when the label
\* lookup/creation yielded a label id, and removes UNREAD only, adding nothing, when not.
C9_LabeledWhenLabelObtained ==
    (MailHandled /\ PublishSucceeded) =>
        /\ CountOp(trace, "modify") = 1
        /\ \A i \in DOMAIN trace :
               trace[i].op = "modify" =>
                   /\ trace[i].m = last.m
                   /\ IF LabelObtained
                      THEN trace[i].add = {LabelId(LabelFor(last.wf))} /\ trace[i].rem = {UNREAD, INBOX}
                      ELSE trace[i].add = {} /\ trace[i].rem = {UNREAD}

C9_Witness ==
    /\ MailHandled /\ PublishSucceeded
    /\ HasAnswer(trace, {"labels_create"}, TRUE)
    /\ labels[last.m] = {LabelId(LabelFor(last.wf))}

IsUpload(step) == step.op = "upload_image"
IsAnsweredOK(step) == step.ok

\* The upload calls post_with_images made, in order
Uploads == SelectSeq(ret.calls, IsUpload)

\* C11: when the message has one or more images and every image upload fails, no combined
\* media post is issued, the plain-text publish is called exactly once, with the unchanged
\* message, and the result of post_with_images is the result of that publish.
C11_TextFallbackWhenNoUpload ==
    (ret.called /\ arg.images # <<>> /\ \A i \in DOMAIN Uploads : ~Uploads[i].ok)
        => /\ CountOp(ret.calls, "publish_media") = 0
           /\ CountOp(ret.calls, "publish_text") = 1
           /\ LET final == ret.calls[Len(ret.calls)]
              IN  /\ final.op = "publish_text"
                  /\ final.text = arg.message
                  /\ ret.result = final.ok

C11_Witness ==
    /\ ret.called /\ Len(arg.images) = 3 /\ Len(Uploads) = 3
    /\ \A i \in DOMAIN Uploads : ~Uploads[i].ok
    /\ ret.result

\* C12: upload is attempted for the first 10 images only, in list order, each once, a
\* failed upload not stopping the following ones; and when at least one upload succeeds
\* exactly one combined post is issued, after the uploads, whose media list is the photo
\* ids of the successful uploads in upload order, and no plain-text publish is made.
C12_FirstTenUploadedOnceInOrder ==
    ret.called =>
        /\ [i \in DOMAIN Uploads |-> Uploads[i].n]
               = SubSeq(arg.images, 1, IF Len(arg.images) < 10 THEN Len(arg.images) ELSE 10)
        /\ \A i \in DOMAIN Uploads : ret.calls[i] = Uploads[i] /\ Uploads[i].ok = arg.uploads[i]
        /\ (\E i \in DOMAIN Uploads : Uploads[i].ok) =>
               LET done == SelectSeq(Uploads, IsAnsweredOK)
                   final == ret.calls[Len(ret.calls)]
               IN  /\ CountOp(ret.calls, "publish_media") = 1
                   /\ CountOp(ret.calls, "publish_text") = 0
                   /\ final.op = "publish_media"
                   /\ final.text = arg.message
                   /\ final.media = [i \in DOMAIN done |-> PhotoId(done[i].n)]
                   /\ ret.result = final.ok

C12_Witness ==
    /\ ret.called /\ Len(arg.images) = 11 /\ Len(Uploads) = 10
    /\ ~arg.uploads[1] /\ arg.uploads[2] /\ ~arg.uploads[3] /\ arg.uploads[10]
    /\ ret.calls[Len(ret.calls)].op = "publish_media"
    /\ Len(ret.calls[Len(ret.calls)].media) >= 2

\* The part of the prompt sent to the generator that stands for {content}: what lies
\* between the line naming the kind of content and the requirements
PlacedContent ==
    LET prompt == ret.calls[1].text
    IN  SubSeq(prompt, Len(arg.subject) + 3, Len(prompt) - 1)

\* C18: content longer than 8000 characters is placed in the prompt as its first 8000
\* characters followed by the truncation marker; content of at most 8000 characters is
\* placed unchanged, with no marker.
C18_TruncatedAbove8000 ==
    ret.called =>
        IF Len(arg.content) > 8000
        THEN /\ Len(PlacedContent) = 8001
             /\ \A i \in 1..8000 : PlacedContent[i] = arg.content[i]
             /\ PlacedContent[8001] = "...\n[Content truncated]"
        ELSE PlacedContent = arg.content

C18_Witness ==
    /\ ret.called /\ Len(arg.content) = 9000
    /\ Len(PlacedContent) = 8001
    /\ PlacedContent[8000] = arg.content[8000]

-----------------------------------------------------------------------------
(* Claims about one run of the process *)

\* Both required secrets are set to a non-empty value
SecretsPresent == Truthy(config.fb_token) /\ Truthy(config.gemini_api_key)

FourInOrder == <<"holidays", "calendar", "meeting_minutes", "facebook_posts">>

\* The unread messages matching a query, in the mailbox's order
UnreadMatching(query) ==
    LET Matches(m) == msgs[m].subject = query /\ UNREAD \in labels[m]
    IN  SelectSeq([i \in 1..NumMsgs |-> i], Matches)

\* The work items the list call of the most recent workflow start answered with
Listed ==
    IF trace = <<>> \/ ~trace[1].ok THEN <<>>
    ELSE IF trace[1].op = "events_list" THEN [i \in 1..trace[1].n |-> i]
    ELSE LET all == UnreadMatching(last.wf)
         IN  SubSeq(all, 1, IF Len(all) < 5 THEN Len(all) ELSE 5)

\* C13: in the Event, MeetingMinutes and PostRequest workflows the loop starts with the
\* items the list call returned, and each of its steps processes the first item not
\* yet processed and goes on to the next, whatever call failed while processing it: the
\* loop ends only when no item is left.
C13_EveryItemOnceInOrder ==
    /\ [](run = "idle" <=> pending = <<>>)
    /\ [][last'.outcome = "listed" => pending' = Listed']_vars
    /\ [][run # "idle" =>
             /\ last'.wf = run /\ last'.m = Head(pending)
             /\ pending' = Tail(pending)]_vars

C13_Witness ==
    /\ last.wf = MinutesQuery /\ last.m = 2 /\ PublishSucceeded
    /\ msgs[1].subject = MinutesQuery /\ UNREAD \in labels[1] /\ published[1] = 0
    /\ run = "idle"

\* C14: in the mode 'both' the workflows are called in the order Holiday, Event,
\* MeetingMinutes, PostRequest, each when the one before has returned, and main does not
\* return before all four were called, whatever they published and whatever failed.
C14_CombinedOrder ==
    /\ []((config.run_mode = "both" /\ SecretsPresent) =>
             /\ Len(ran) <= 4 /\ ran = SubSeq(FourInOrder, 1, Len(ran))
             /\ pc = "returned" => ran = FourInOrder
             /\ pc = "workflows" => ENABLED MainNext)
    /\ [][(config.run_mode = "both" /\ ran' # ran) => (run = "idle" /\ pending = <<>>)]_vars

C14_Witness ==
    /\ config.run_mode = "both" /\ pc = "returned" /\ ran = FourInOrder
    /\ \A m \in MsgIds : published[m] = 0
    /\ flags = {}
    /\ FetchFailed

\* C15: when a required secret is missing the process exits with status 1 from its first
\* step: no workflow is called and no call to a service is made.
C15_MissingSecretIsFatal ==
    /\ [](~SecretsPresent =>
             /\ pc \in {"start", "exited"}
             /\ ran = <<>> /\ trace = <<>> /\ run = "idle" /\ services = {}
             /\ pc = "start" => ENABLED HOAPoster_init)
    /\ [][~SecretsPresent => pc' = "exited"]_vars

C15_Witness ==
    /\ pc = "exited" /\ config.run_mode = "both"
    /\ Truthy(config.fb_token) /\ config.gemini_api_key = <<>>

\* C16: with both secrets present the process never exits with status 1, whatever call
\* fails; it goes on until the workflows of its mode were all called and then returns.
C16_FailuresAreNotFatal ==
    SecretsPresent =>
        /\ pc # "exited"
        /\ pc = "returned" => ran = Plan(config.run_mode)
        /\ config.run_mode = "both" /\ pc = "returned" => Len(ran) = 4
        /\ pc # "returned" => ENABLED MainNext

C16_Witness ==
    /\ pc = "returned" /\ config.run_mode = "both" /\ Len(ran) = 4
    /\ PublishFailed
    /\ \E m \in MsgIds : msgs[m].subject = MinutesQuery /\ UNREAD \in labels[m]

\* C17 (as stated): when the Google services are not configured or their building failed
\* (not all three were built), the process does not exit with an error and the Event,
\* MeetingMinutes and PostRequest workflows list nothing and make no call.
C17_AllNoOpWhenInitFailed ==
    (SecretsPresent /\ pc # "start" /\ services # Range(GoogleServices)) =>
        /\ pc # "exited"
        /\ last.wf \in {"calendar", MinutesQuery, PostQuery} =>
               trace = <<>> /\ pending = <<>> /\ run = "idle"

\* C17 (amended): a workflow whose own Google service is absent (no credentials, or the
\* building failed at or before it) lists nothing and makes no call, while one whose
\* service was built runs as usual; without the file store no upload is
\* made; the process does not exit with an error; the Holiday workflow on a major holiday
\* not yet flagged and the Custom workflow call the generator, and the poster when the
\* generator gave a text.
C17_AbsentServiceIsNoOp ==
    SecretsPresent =>
        /\ pc # "exited"
        /\ (last.wf = "calendar" /\ "calendar" \notin services) =>
               trace = <<>> /\ pending = <<>> /\ run = "idle" /\ last.outcome = "listed"
        /\ (last.wf \in {MinutesQuery, PostQuery} /\ "gmail" \notin services) =>
               trace = <<>> /\ pending = <<>> /\ run = "idle" /\ last.outcome = "listed"
        /\ "drive" \notin services => Ops(trace) \cap {"files_create", "permissions_create"} = {}
        /\ (\/ last.wf = "custom"
            \/ last.wf = "holiday" /\ calendar[0] = <<"Christmas", "Day">>
                  /\ flags \subseteq {trace[i].n : i \in {j \in DOMAIN trace : trace[j].op = "flag_write"}})
           => /\ "generate_content" \in Ops(trace)
              /\ ~GenerationFailed => "publish_text" \in Ops(trace)

C17_Witness ==
    /\ pc = "returned" /\ config.run_mode = "both" /\ ran = FourInOrder
    /\ has_google_credentials(config) /\ services = {"calendar"}
    /\ hol[0].firstOK
    /\ last.wf = PostQuery /\ trace = <<>>

\* C19 (as stated): no publish call, of text or of media, carries a message that is empty
\* or consists of whitespace only.
C19_NoBlankPublish ==
    \A i \in DOMAIN trace : trace[i].op \in PublishOps => Strip(trace[i].text) # <<>>

\* The calls of the generator in the trace
IsGenerate(step) == step.op = "generate_content"
Generates == SelectSeq(trace, IsGenerate)

\* C20: handling an Event item, and the Custom workflow, compose once (one prompt, sent at
\* most 3 times), call the plain-text publish once, last, with the text the generator
\* gave, and not at all when it gave none; they make no other call, and leave the flag
\* files and the mailbox as they were.
C20_ComposeOncePublishOnce ==
    /\ []((last.wf = "custom" \/ (last.wf = "calendar" /\ last.m # 0)) =>
             /\ Len(Generates) \in 1..3
             /\ \A i \in DOMAIN Generates : Generates[i].text = Generates[1].text
             /\ Ops(trace) \subseteq {"generate_content", "sleep", "publish_text"}
             /\ IF GenerationFailed
                THEN CountOp(trace, "publish_text") = 0
                ELSE /\ CountOp(trace, "publish_text") = 1
                     /\ trace[Len(trace)].op = "publish_text"
                     /\ trace[Len(trace)].text = Generates[Len(Generates)].out)
    /\ [][last'.wf \in {"custom", "calendar"} =>
             UNCHANGED <<flags, labels, userLabels, published, marked>>]_vars

C20_Witness ==
    /\ last.wf = "calendar" /\ last.m = 2
    /\ CountOp(trace, "generate_content") = 1
    /\ PublishSucceeded
    /\ pc = "workflows"

-----------------------------------------------------------------------------
(* Claims about content extraction *)

Extracted == ret.called /\ arg.fn = "extract"

IsImage(part) == StartsWith(part.mimeType, <<"image/">>)

IsTextPlain(part) == part.mimeType = <<"text/", "plain">>

RECURSIVE PreOrder(_)
RECURSIVE PreOrderAll(_)

\* The parts of a part tree in pre-order: a part, then the parts below it, left to right
PreOrder(part) == <<part>> \o (IF part.multipart THEN PreOrderAll(part.parts) ELSE <<>>)

PreOrderAll(parts) ==
    IF parts = <<>> THEN <<>> ELSE PreOrder(Head(parts)) \o PreOrderAll(Tail(parts))

\* The decoded body of a part: "" without data; None where the data is not a text
DecodedBody(part) ==
    IF ~Truthy(part.body.data) THEN <<>> ELSE decode_utf8(urlsafe_b64decode(part.body.data))

\* The bytes of a part as the environment provides them: those of its attachment, when
\* it names one and the fetch answers with data, else its inline data; None without
BytesOf(part, fetch) ==
    IF Truthy(part.body.attachmentId)
    THEN IF fetch[part.body.attachmentId] = "data"
         THEN urlsafe_b64decode(AttachmentData(part.body.attachmentId)) ELSE None
    ELSE IF Truthy(part.body.data) THEN urlsafe_b64decode(part.body.data) ELSE None

ImageBytes == [i \in DOMAIN ret.images |-> ret.images[i].data]

ImageTypes == [i \in DOMAIN ret.images |-> ret.images[i].mime_type]

\* C21 (as stated): for a message with no multipart structure, the body text is the
\* decoded single body, there is no document attachment and the image list is empty,
\* whatever the content type of the single part.
C21_SinglePartHasNoImages ==
    (Extracted /\ ~arg.payload.multipart) =>
        /\ DecodedBody(arg.payload) # None => ret.body = DecodedBody(arg.payload)
        /\ ret.filename = None /\ ret.file_data = None /\ ret.mime_type = None
        /\ ret.images = <<>>

\* C21 (amended): for a message with no multipart structure, the body text is the decoded
\* single body ("" when there is none or it is not a text), there is no document
\* attachment and no fetch is made for one, and the image list is empty unless the single
\* part is itself an image whose bytes could be obtained: then it holds that part alone.
C21_SinglePartExtraction ==
    (Extracted /\ ~arg.payload.multipart) =>
        /\ ret.body = IF DecodedBody(arg.payload) = None THEN <<>> ELSE DecodedBody(arg.payload)
        /\ ret.filename = None /\ ret.file_data = None /\ ret.mime_type = None
        /\ ret.attachment_calls = <<>>
        /\ IF IsImage(arg.payload) /\ BytesOf(arg.payload, arg.fetch) # None
           THEN /\ ImageBytes = <<BytesOf(arg.payload, arg.fetch)>>
                /\ ImageTypes = <<arg.payload.mimeType>>
           ELSE ret.images = <<>>

\* A message that is a single image part has been extracted, and its image was found
C21_Witness ==
    /\ Extracted
    /\ ~arg.payload.multipart
    /\ IsImage(arg.payload)
    /\ Len(ret.images) = 1
    /\ ret.body = <<>>

\* The body the specification describes: the decoded content of the first text/plain
\* part in pre-order, the single body of a message that is not multipart, "" without
TextPlainParts(payload) == SelectSeq(PreOrder(payload), IsTextPlain)

FirstTextPlainBody(payload) ==
    LET part == IF payload.multipart
                THEN (IF TextPlainParts(payload) = <<>> THEN Part(<<>>, <<>>, <<>>, None)
                      ELSE TextPlainParts(payload)[1])
                ELSE payload
    IN  IF DecodedBody(part) = None THEN <<>> ELSE DecodedBody(part)

\* C26: extract_body returns the decoded content of the first text/plain part in a
\* pre-order traversal of the whole part tree (nested parts included), the single body of
\* a message that is not multipart, and "" when there is no text/plain part.
C26_FirstTextPlainInPreOrder ==
    Extracted => ret.body = FirstTextPlainBody(arg.payload)

\* The images the specification describes: the image parts in pre-order whose bytes
\* could be obtained
ObtainableImages ==
    LET Obtained(part) == IsImage(part) /\ BytesOf(part, arg.fetch) # None
    IN  SelectSeq(PreOrder(arg.payload), Obtained)

\* C27: extract_images returns, in pre-order of the part tree, exactly the image parts
\* whose bytes could be obtained: a part without data, or whose attachment fetch fails,
\* is left out, and every other image part is still returned.
C27_ObtainableImagesInPreOrder ==
    Extracted =>
        /\ ImageBytes = [i \in DOMAIN ObtainableImages |-> BytesOf(ObtainableImages[i], arg.fetch)]
        /\ ImageTypes = [i \in DOMAIN ObtainableImages |-> ObtainableImages[i].mimeType]

-----------------------------------------------------------------------------
(* Claims about the Holiday workflow and its publish record *)

\* This step is an invocation of the Holiday workflow
HolidayRan == hol' # hol

IsFlagCheck(step) == step.op = "flag_exists"

IsFlagWrite(step) == step.op = "flag_write"

\* The calls of this kind in the trace, in order
FlagChecks == SelectSeq(trace, IsFlagCheck)

FlagWrites == SelectSeq(trace, IsFlagWrite)

NoGenerateNoPublish == Ops(trace) \cap ({"generate_content"} \cup PublishOps) = {}

\* mark_posted_today is only called as the last call, right after a publish that succeeded
MarkedOnlyAfterPublish ==
    \A i \in DOMAIN trace :
        IsFlagWrite(trace[i]) =>
            /\ i = Len(trace)
            /\ i > 1
            /\ trace[i - 1].op = "publish_text" /\ trace[i - 1].ok

\* C22 (as stated): in a Holiday invocation, when today is not a major holiday or the
\* publish record of today is set, no generate and no publish call is made; otherwise
\* mark_posted_today is called only after a publish of the invocation succeeded, and
\* when generation or publishing fails the record stays as it was.
C22_NoCallWhenRecordSet ==
    [][HolidayRan =>
         /\ (~should_post_holiday(calendar[clock]) \/ clock \in flags) => NoGenerateNoPublish'
         /\ MarkedOnlyAfterPublish'
         /\ (GenerationFailed' \/ PublishFailed') => flags' = flags]_vars

\* C22 (amended): the same, where "the record is set" is what already_posted_today
\* answers: its existence check of the record of the date it reads is answered, with yes.
C22_NoCallWhenCheckSaysPosted ==
    [][HolidayRan =>
         /\ ~should_post_holiday(calendar[clock]) => trace' = <<>>
         /\ (\E i \in DOMAIN trace' :
                IsFlagCheck(trace'[i]) /\ trace'[i].ok /\ trace'[i].n \in flags)
                => NoGenerateNoPublish'
         /\ MarkedOnlyAfterPublish'
         /\ (GenerationFailed' \/ PublishFailed' \/ NoGenerateNoPublish') => flags' = flags]_vars

\* An invocation on a major holiday found the record of the date set and stopped there
C22_Witness ==
    /\ last.wf = "holiday"
    /\ Len(trace) = 1
    /\ IsFlagCheck(trace[1]) /\ trace[1].ok /\ trace[1].n \in flags
    /\ should_post_holiday(calendar[trace[1].n])

\* C29: within one Holiday invocation, the date of the holiday decision, the date of the
\* record already_posted_today reads and the date of the record mark_posted_today writes
\* are the same date: a publish for day D never sets the record of day D+1.
C29_OneDatePerInvocation ==
    [][HolidayRan =>
         \A i \in DOMAIN trace' :
             (IsFlagCheck(trace'[i]) \/ IsFlagWrite(trace'[i])) => trace'[i].n = clock]_vars

\* C23: the tracker never aborts a workflow.  When the existence check of the record
\* fails, already_posted_today answers false: the invocation goes on to generate.  When
\* the write of the record fails, the publish that succeeded is still the outcome of the
\* invocation, and main goes on: the workflow has returned and main has not exited with
\* status 1.
C23_TrackerNeverAborts ==
    last.wf = "holiday" =>
        /\ pc \in {"workflows", "returned"} /\ ran # <<>> /\ ran[Len(ran)] = "holidays"
        /\ HasAnswer(trace, {"flag_exists"}, FALSE) =>
               /\ last.outcome # "already_posted"
               /\ "generate_content" \in Ops(trace)
        /\ HasAnswer(trace, {"flag_write"}, FALSE) =>
               /\ HasAnswer(trace, {"publish_text"}, TRUE)
               /\ last.outcome = "published"

\* The record of today was set, its check failed, the post was generated and published
\* again, and the write of the record failed as well
C23_Witness ==
    /\ last.wf = "holiday"
    /\ clock \in flags
    /\ HasAnswer(trace, {"flag_exists"}, FALSE)
    /\ HasAnswer(trace, {"publish_text"}, TRUE)
    /\ HasAnswer(trace, {"flag_write"}, FALSE)
    /\ last.outcome = "published"

-----------------------------------------------------------------------------
(* Claims about the link trailer *)

\* The calls of the generator among the calls of the function under study
GenerateCalls == SelectSeq(ret.calls, IsGenerate)

\* The text the generator gave: that of its last call when it answered, else None
GeneratedText ==
    IF GenerateCalls # <<>> /\ GenerateCalls[Len(GenerateCalls)].ok
    THEN GenerateCalls[Len(GenerateCalls)].out ELSE None

\* C25: generate_meeting_minutes_post never places the file link in the prompt; its
\* result is the generated text followed by the trailer and the link when generation gave
\* a text and a link is available, the generated text unchanged without a link, and
\* absence when generation failed: the trailer never comes on its own.
C25_LinkOnlyAsTrailer ==
    (ret.called /\ arg.fn = "generate_meeting_minutes_post") =>
        /\ \A i \in DOMAIN GenerateCalls :
               /\ GenerateCalls[i].text
                      = minutes_prompt(arg.subject, arg.content, arg.is_from_document)
               /\ Truthy(arg.drive_link) =>
                      Range(arg.drive_link) \cap Range(GenerateCalls[i].text) = {}
        /\ IF Truthy(GeneratedText) /\ Truthy(arg.drive_link)
           THEN ret.result = GeneratedText \o LinkTrailer \o arg.drive_link
           ELSE ret.result = GeneratedText
        /\ (~Truthy(GeneratedText)) => ~Truthy(ret.result)

\* A text was generated at the second attempt and the link was appended to it
C25_Witness ==
    /\ ret.called
    /\ arg.fn = "generate_meeting_minutes_post"
    /\ Len(GenerateCalls) = 2
    /\ Truthy(GeneratedText)
    /\ arg.drive_link = DriveLink
    /\ ret.result = GeneratedText \o LinkTrailer \o DriveLink

-----------------------------------------------------------------------------
(* Claims about the file store *)

\* The upload of the handled document was attempted and failed
UploadFailed == HasAnswer(trace, {"files_create", "permissions_create"}, FALSE)

\* The text of the attached document was extracted
DocumentTextExtracted == HasAnswer(trace, {"extract_text"}, TRUE)

\* C24: in the MeetingMinutes workflow, when a document attachment was found and its
\* text extracted but the upload to the file store fails, the mailbox state of the message
\* is left untouched: it stays unread and in the inbox, and no label is applied.
C24_UploadFailureLeavesMailbox ==
    (MailHandled /\ last.wf = MinutesQuery /\ DocumentTextExtracted /\ UploadFailed) =>
        /\ Ops(trace) \cap MutationOps = {}
        /\ labels[last.m] = last.before
        /\ {UNREAD, INBOX} \subseteq labels[last.m]

\* C28: across the MeetingMinutes runs, the document of a message is uploaded to the file
\* store at most once, and only for a message whose announcement is published.
C28_UploadedOnceWhenPublished ==
    \A m \in DOMAIN stored :
        /\ stored[m] <= 1
        /\ stored[m] > 0 => published[m] > 0

-----------------------------------------------------------------------------
(* Claims about repeated runs *)

\* C30: under repeated runs of an email workflow, each listing at most 5 unread matching
\* messages in the mailbox's order, every unread matching message whose generation and
\* publish would succeed is eventually published, even when other matching messages fail
\* on every run and stay unread.
C30_NoStarvation ==
    <>(\A m \in DOMAIN msgs : msgs[m].fails \/ published[m] > 0)

\* The attempts and the sleeps generate made, and the time it slept in total
Attempts == SelectSeq(ret.calls, LAMBDA c : c.op = "generate_content")
Sleeps == SelectSeq(ret.calls, LAMBDA c : c.op = "sleep")

RECURSIVE SleptFrom(_, _)
SleptFrom(sleeps, i) == IF i > Len(sleeps) THEN 0 ELSE sleeps[i].n + SleptFrom(sleeps, i + 1)

\* The generator's k-th answer is a rate-limit failure, a failure of another kind
RateLimited(k) == ~arg.responses[k].ok /\ IsRateLimit(arg.responses[k].val)
OtherFailure(k) == ~arg.responses[k].ok /\ ~IsRateLimit(arg.responses[k].val)

\* A failure of another kind, or a third rate-limit failure, comes before any success
FailsBeforeSuccess ==
    \/ \E k \in DOMAIN arg.responses :
           OtherFailure(k) /\ \A j \in 1..(k - 1) : ~arg.responses[j].ok
    \/ \A k \in 1..3 : RateLimited(k)

\* C31: for every sequence of generator outcomes (success, rate-limit failure, other
\* failure), generate ends after at most 3 attempts and at most 2 sleeps of at most 15
\* units in total; it returns the text of the first successful attempt and makes no
\* attempt after it; and it returns None exactly when a failure of another kind or a
\* third rate-limit failure occurs before any success.
C31_GenerateTerminatesWithinBudget ==
    ret.called =>
        /\ Len(Attempts) <= 3
        /\ Len(Sleeps) <= 2
        /\ SleptFrom(Sleeps, 1) <= 15
        /\ Len(ret.calls) = Len(Attempts) + Len(Sleeps)
        /\ \A k \in DOMAIN Attempts :
               /\ Attempts[k].ok = arg.responses[k].ok
               /\ Attempts[k].out = arg.responses[k].val
               /\ Attempts[k].ok => /\ ret.result = Attempts[k].out
                                    /\ k = Len(Attempts)
                                    /\ ret.calls[Len(ret.calls)] = Attempts[k]
        /\ \A k \in DOMAIN arg.responses :
               (arg.responses[k].ok /\ \A j \in 1..(k - 1) : RateLimited(j))
                   => Len(Attempts) = k /\ ret.result = arg.responses[k].val
        /\ (ret.result = None) <=> FailsBeforeSuccess

C31_Witness ==
    /\ ret.called
    /\ RateLimited(1) /\ RateLimited(2)
    /\ arg.responses[3].ok /\ arg.responses[3].val = <<"Join", "us">>
    /\ ret.result = <<"Join", "us">>
    /\ Len(Attempts) = 3 /\ Len(Sleeps) = 2 /\ SleptFrom(Sleeps, 1) = 15

=============================================================================
